---- MODULE Spec2Model ----
(***************************************************************************)
(* Model of the in-memory store of ape_my (internal/storage/storage.go).   *)
(* Go strings are sequences of byte codes, so that formatID,               *)
(* parseIDNumber and sort.Strings are computed character by character.     *)
(* Field names, entity type names and error names are never inspected      *)
(* character-wise by the store and are plain TLA+ strings.                 *)
(***************************************************************************)
EXTENDS Integers, Sequences, FiniteSets, TLC

VARIABLES data, counter, op, ret, seen, ngen, prevq, pg, mu, thr, base, srv

\* The lock of the store, the goroutines that call it, the collection sizes
\* before they start, and the HTTP server in front of the store.
concVars == <<mu, thr, base, srv>>

vars == <<data, counter, op, ret, seen, ngen, prevq, pg, mu, thr, base, srv>>

(***************************************************************************)
(* Strings                                                                 *)
(***************************************************************************)
EmptyStr == << >>

IsDigit(ch) == ch >= 48 /\ ch <= 57

S1 == <<49>>
S2 == <<50>>
S11 == <<49, 49>>
S10 == <<49, 48>>
S01 == <<48, 49>>
Sa == <<97>>
Alice == <<65, 108, 105, 99, 101>>
Bob == <<66, 111, 98>>

\* The order of Go's string comparison: bytewise, a proper prefix first.
StrLess(a, b) ==
    \E i \in 1..(Len(b)) :
        /\ \A j \in 1..(i - 1) : j <= Len(a) /\ a[j] = b[j]
        /\ \/ i > Len(a)
           \/ i <= Len(a) /\ a[i] < b[i]

RECURSIVE InsertSortedShortFirst(_, _)
InsertSortedShortFirst(x, sorted) ==
    IF sorted = << >> THEN <<x>>
    ELSE IF Len(x) < Len(Head(sorted))
            \/ (Len(x) = Len(Head(sorted)) /\ (StrLess(x, Head(sorted)) \/ x = Head(sorted)))
         THEN <<x>> \o sorted
         ELSE <<Head(sorted)>> \o InsertSortedShortFirst(x, Tail(sorted))

RECURSIVE InsertSorted(_, _)
InsertSorted(x, sorted) ==
    IF sorted = << >> THEN <<x>>
    ELSE IF StrLess(x, Head(sorted)) \/ x = Head(sorted)
         THEN <<x>> \o sorted
         ELSE <<Head(sorted)>> \o InsertSorted(x, Tail(sorted))

SortStringsAsYielded(ids) == ids

\* sort.Strings: the ascending rearrangement of the slice.
RECURSIVE SortStrings(_)
SortStrings(ids) ==
    IF ids = << >> THEN << >>
    ELSE InsertSorted(Head(ids), SortStrings(Tail(ids)))

\* The orders in which ranging over a Go map can yield its keys.
RECURSIVE MapOrders(_)
MapOrders(S) ==
    IF S = {} THEN { << >> }
    ELSE UNION { { <<x>> \o p : p \in MapOrders(S \ {x}) } : x \in S }

(***************************************************************************)
(* Values of interface{}: the dynamic types a record field can have.       *)
(* A float64 is the decimal n * 10^(-e), kept normalised.                  *)
(***************************************************************************)
StrV(s) == [t |-> "string", s |-> s, n |-> 0, e |-> 0, b |-> FALSE, l |-> << >>]
NumV(n, e) == [t |-> "float64", s |-> << >>, n |-> n, e |-> e, b |-> FALSE, l |-> << >>]
BoolV(b) == [t |-> "bool", s |-> << >>, n |-> 0, e |-> 0, b |-> b, l |-> << >>]
NilV == [t |-> "nil", s |-> << >>, n |-> 0, e |-> 0, b |-> FALSE, l |-> << >>]
SliceV(l) == [t |-> "slice", s |-> << >>, n |-> 0, e |-> 0, b |-> FALSE, l |-> l]

\* A Go map: a function whose domain is the set of keys present.
EmptyMap == [k \in {} |-> NilV]
Has(m, k) == k \in DOMAIN m
MapSet(m, k, v) == [x \in (DOMAIN m) \cup {k} |-> IF x = k THEN v ELSE m[x]]
MapDelAll(m, k) == EmptyMap

MapDel(m, k) == [x \in (DOMAIN m) \ {k} |-> m[x]]

copyMap(src) == [key \in DOMAIN src |-> src[key]]

(***************************************************************************)
(* ID helpers                                                              *)
(***************************************************************************)
RECURSIVE formatLoop(_, _)
formatLoop(c, result) ==
    IF c > 0 THEN formatLoop(c \div 10, <<48 + (c % 10)>> \o result)
    ELSE result

formatID(c) ==
    IF c < 10 THEN <<48 + c>>
    ELSE formatLoop(c, << >>)

RECURSIVE parseLoop(_, _, _)
parseLoop(id, i, num) ==
    IF i > Len(id) THEN num
    ELSE IF IsDigit(id[i]) THEN parseLoop(id, i + 1, num * 10 + (id[i] - 48))
    ELSE 0

parseIDNumber(id) ==
    IF Len(id) = 1 /\ IsDigit(id[1]) THEN id[1] - 48
    ELSE parseLoop(id, 1, 0)

(***************************************************************************)
(* Library conversions used by matchesFilters                              *)
(***************************************************************************)
\* Normal form of the decimal n * 10^(-e): no trailing fractional zero.
RECURSIVE NormDec(_, _)
NormDec(n, e) ==
    IF n = 0 THEN [n |-> 0, e |-> 0]
    ELSE IF e > 0 /\ n % 10 = 0 THEN NormDec(n \div 10, e - 1)
    ELSE [n |-> n, e |-> e]

\* Scans the digits and the optional point of a decimal literal from
\* position i on; st = [n, e, dot, digits, ok].
RECURSIVE pfLoop(_, _, _)
pfLoop(s, i, st) ==
    IF i > Len(s) THEN st
    ELSE IF IsDigit(s[i])
         THEN pfLoop(s, i + 1, [st EXCEPT !.n = st.n * 10 + (s[i] - 48),
                                          !.e = IF st.dot THEN st.e + 1 ELSE st.e,
                                          !.digits = st.digits + 1])
    ELSE IF s[i] = 46 /\ ~st.dot
         THEN pfLoop(s, i + 1, [st EXCEPT !.dot = TRUE])
    ELSE [st EXCEPT !.ok = FALSE]

\* strconv.ParseFloat(s, 64) on plain decimal notation: an optional sign,
\* digits and at most one point, at least one digit.  Any other character
\* is a syntax error (exponent, hexadecimal, "inf" and "nan" spellings are
\* not among the strings of the model).
ParseFloat(s) ==
    LET signed == Len(s) >= 1 /\ (s[1] = 43 \/ s[1] = 45)
        neg == Len(s) >= 1 /\ s[1] = 45
        st == pfLoop(s, IF signed THEN 2 ELSE 1,
                     [n |-> 0, e |-> 0, dot |-> FALSE, digits |-> 0, ok |-> TRUE])
        nd == NormDec(st.n, st.e)
    IN IF st.ok /\ st.digits >= 1
       THEN [ok |-> TRUE, n |-> IF neg THEN 0 - nd.n ELSE nd.n, e |-> nd.e]
       ELSE [ok |-> FALSE, n |-> 0, e |-> 0]

StrTrueSet ==
    { <<49>>, <<116>>, <<84>>, <<84, 82, 85, 69>>, <<116, 114, 117, 101>>,
      <<84, 114, 117, 101>> }
StrFalseSet ==
    { <<48>>, <<102>>, <<70>>, <<70, 65, 76, 83, 69>>, <<102, 97, 108, 115, 101>>,
      <<70, 97, 108, 115, 101>> }

\* strconv.ParseBool
ParseBool(s) ==
    IF s \in StrTrueSet THEN [ok |-> TRUE, b |-> TRUE]
    ELSE IF s \in StrFalseSet THEN [ok |-> TRUE, b |-> FALSE]
    ELSE [ok |-> FALSE, b |-> FALSE]

RECURSIVE JoinSp(_)
JoinSp(l) ==
    IF l = << >> THEN << >>
    ELSE IF Len(l) = 1 THEN Head(l)
    ELSE Head(l) \o <<32>> \o JoinSp(Tail(l))

\* fmt.Sprintf("%v", v) for the values that reach the default case:
\* nil prints <nil>, a slice of strings prints [a b].
SprintfV(v) ==
    IF v.t = "nil" THEN <<60, 110, 105, 108, 62>>
    ELSE <<91>> \o JoinSp(v.l) \o <<93>>

(***************************************************************************)
(* matchesFilters                                                          *)
(***************************************************************************)
FilterStepIgnoringPoint(entity, key, filterValue) ==
    IF ~Has(entity, key) THEN FALSE
    ELSE LET entityValue == entity[key] IN
         CASE entityValue.t = "string" -> entityValue.s = filterValue
           [] entityValue.t = "float64" ->
                LET f == ParseFloat(filterValue)
                IN f.ok /\ entityValue.n = f.n
           [] entityValue.t = "bool" ->
                LET p == ParseBool(filterValue)
                IN p.ok /\ entityValue.b = p.b
           [] OTHER -> SprintfV(entityValue) = filterValue

\* One iteration of the loop: FALSE when the body returns false.
FilterStep(entity, key, filterValue) ==
    IF ~Has(entity, key) THEN FALSE
    ELSE LET entityValue == entity[key] IN
         CASE entityValue.t = "string" -> entityValue.s = filterValue
           [] entityValue.t = "float64" ->
                LET f == ParseFloat(filterValue)
                IN f.ok /\ entityValue.n = f.n /\ entityValue.e = f.e
           [] entityValue.t = "bool" ->
                LET p == ParseBool(filterValue)
                IN p.ok /\ entityValue.b = p.b
           [] OTHER -> SprintfV(entityValue) = filterValue

matchLoopFirstKey(entity, filters, keys) ==
    IF keys = {} THEN TRUE
    ELSE LET key == CHOOSE k \in keys : TRUE
         IN FilterStep(entity, key, filters[key])

\* The range loop over the filter map, in the order the map yields its keys;
\* it returns false at the first key that does not match.
RECURSIVE matchLoop(_, _, _)
matchLoop(entity, filters, keys) ==
    IF keys = {} THEN TRUE
    ELSE LET key == CHOOSE k \in keys : TRUE
         IN IF ~FilterStep(entity, key, filters[key]) THEN FALSE
            ELSE matchLoop(entity, filters, keys \ {key})

matchesFilters(entity, filters) == matchLoop(entity, filters, DOMAIN filters)

(***************************************************************************)
(* ListQuery: the computation on one collection                            *)
(***************************************************************************)
NoFilters == [k \in {} |-> EmptyStr]

\* The filtering loop over the sorted IDs.
RECURSIVE filterLoop(_, _, _)
filterLoop(coll, allIDs, filters) ==
    IF allIDs = << >> THEN << >>
    ELSE LET entity == coll[Head(allIDs)]
             rest == filterLoop(coll, Tail(allIDs), filters)
         IN IF matchesFilters(entity, filters) THEN <<copyMap(entity)>> \o rest
            ELSE rest

\* Index (0-based) of the first item whose id equals the cursor, or -1.
RECURSIVE cursorLoop(_, _, _)
cursorLoop(filtered, cursor, i) ==
    IF i >= Len(filtered) THEN 0 - 1
    ELSE LET item == filtered[i + 1]
         IN IF Has(item, "id") /\ item["id"].t = "string" /\ item["id"].s = cursor
            THEN i
            ELSE cursorLoop(filtered, cursor, i + 1)

\* filtered[from:] (0-based from).
SliceFrom(seq, from) == SubSeq(seq, from + 1, Len(seq))

CursorSkipInclusive(filtered, cursorIndex) ==
    IF cursorIndex >= 0 THEN SliceFrom(filtered, cursorIndex) ELSE << >>

\* The cursor branch: everything after the cursor's position, if any.
CursorSkip(filtered, cursorIndex) ==
    IF cursorIndex >= 0 /\ cursorIndex + 1 < Len(filtered)
    THEN SliceFrom(filtered, cursorIndex + 1)
    ELSE << >>

AfterSkip(filtered, opts) ==
    IF opts.Cursor # EmptyStr
    THEN CursorSkip(filtered, cursorLoop(filtered, opts.Cursor, 0))
    ELSE IF opts.Offset > 0
    THEN IF opts.Offset >= Len(filtered) THEN << >>
         ELSE SliceFrom(filtered, opts.Offset)
    ELSE filtered

\* The ID of the last item of a truncated page.
LastID(page) ==
    IF Has(page[Len(page)], "id") /\ page[Len(page)]["id"].t = "string"
    THEN page[Len(page)]["id"].s
    ELSE EmptyStr

\* The limit step and the result.
ApplyLimit(skipped, totalCount, opts) ==
    IF opts.Limit > 0 /\ Len(skipped) > opts.Limit
    THEN [Items |-> SubSeq(skipped, 1, opts.Limit), TotalCount |-> totalCount,
          NextCursor |-> LastID(SubSeq(skipped, 1, opts.Limit))]
    ELSE [Items |-> skipped, TotalCount |-> totalCount, NextCursor |-> EmptyStr]

PaginateCountingPage(filtered, opts) ==
    ApplyLimit(AfterSkip(filtered, opts), Len(AfterSkip(filtered, opts)), opts)

Paginate(filtered, opts) == ApplyLimit(AfterSkip(filtered, opts), Len(filtered), opts)

\* order is the order in which the map yielded the IDs.
QueryOf(coll, order, opts) ==
    Paginate(filterLoop(coll, SortStrings(order), opts.Filters), opts)

(***************************************************************************)
(* Bounds and input sets                                                   *)
(***************************************************************************)
EntityTypes == {"users", "tweets"}

\* At most MaxRecords records are stored, over all collections.
MaxRecords == 2
\* Create generates at most MaxGen IDs in a run.
MaxGen == 2
\* Seed is called with at most MaxSeedLen records.
MaxSeedLen == 2

NoOpts == [Filters |-> NoFilters, Limit |-> 0, Offset |-> 0, Cursor |-> EmptyStr]

ErrNone == "nil"
ErrNotFound == "entity not found"
ErrEntityTypeNotFound == "entity type not found"
\* A failed type assertion: the call panics, its deferred Unlock runs.
Panic == "panic"

\* A record built from an optional id value and an optional name.
Rec(idv, namev) ==
    LET m1 == IF idv = << >> THEN EmptyMap ELSE MapSet(EmptyMap, "id", idv[1])
    IN IF namev = << >> THEN m1 ELSE MapSet(m1, "name", namev[1])

Absent == << >>

\* Bodies of Create: id absent, null, empty, given, or not a string.
CreateBodies(et) ==
    IF et = "users"
    THEN { Rec(i, n) : i \in { Absent, <<NilV>>, <<StrV(EmptyStr)>>, <<StrV(S1)>>, <<NumV(7, 0)>> },
                       n \in { Absent, <<StrV(Alice)>> } }
    ELSE { Rec(Absent, Absent), Rec(<<StrV(S1)>>, <<StrV(Alice)>>) }

\* Bodies of Update and Patch: with or without an id other than the path id.
UpdateBodies(et) ==
    IF et = "users"
    THEN { Rec(i, n) : i \in { Absent, <<StrV(Sa)>> }, n \in { Absent, <<StrV(Bob)>> } }
    ELSE { Rec(<<StrV(Sa)>>, <<StrV(Bob)>>) }

\* Seed records: id missing, not a string, empty, numeric, not numeric.
SeedRecs(et) ==
    IF et = "users"
    THEN { Rec(i, <<StrV(Alice)>>) :
              i \in { Absent, <<NumV(7, 0)>>, <<StrV(EmptyStr)>>, <<StrV(S10)>>, <<StrV(Sa)>> } }
    ELSE { Rec(<<StrV(S2)>>, Absent) }
SeedLists(et) == UNION { [1..k -> SeedRecs(et)] : k \in 1..MaxSeedLen }

IdArgs(et) == IF et = "users" THEN { EmptyStr, S1, S2 } ELSE { S1 }

QueryArgs(et) ==
    IF et = "users"
    THEN { NoOpts, [Filters |-> [k \in {"name"} |-> Alice], Limit |-> 1, Offset |-> 0,
                    Cursor |-> EmptyStr] }
    ELSE { NoOpts }

(***************************************************************************)
(* State                                                                   *)
(***************************************************************************)
NoOp == [name |-> "none", et |-> "", id |-> EmptyStr, body |-> EmptyMap,
         list |-> << >>, opts |-> NoOpts, types |-> {}]
\* old records what the call found stored under its id: << >> or <<record>>.
NoRet == [err |-> ErrNone, id |-> EmptyStr, entity |-> EmptyMap, items |-> << >>,
          total |-> 0, next |-> EmptyStr, old |-> << >>]
\* History of ListQuery: the last call that returned and its result, valid
\* while the store has not changed since; kept only when on.
NoPrev == [on |-> FALSE, valid |-> FALSE, et |-> "", opts |-> NoOpts, res |-> NoRet]
\* The client that pages through a collection: the cursor of its next request
\* is in opts, visited are the IDs of the items received so far.
NoPg == [phase |-> "off", et |-> "", opts |-> NoOpts, visited |-> << >>]

Call(name, et, id, body) == [NoOp EXCEPT !.name = name, !.et = et, !.id = id, !.body = body]
FailNotFound(err) == [NoRet EXCEPT !.err = ErrNotFound]

Fail(err) == [NoRet EXCEPT !.err = err]
Found(coll, id) == IF id \in DOMAIN coll THEN <<coll[id]>> ELSE << >>

\* s.data[entityType] == nil
NoType(et) == et \notin DOMAIN data

Size(d) ==
    LET RECURSIVE Sum(_)
        Sum(T) == IF T = {} THEN 0
                  ELSE LET t == CHOOSE x \in T : TRUE
                       IN Cardinality(DOMAIN d[t]) + Sum(T \ {t})
    IN Sum(DOMAIN d)

\* The value of a decimal numeral.
RECURSIVE DecValue(_)
DecValue(s) ==
    IF s = << >> THEN 0
    ELSE DecValue(SubSeq(s, 1, Len(s) - 1)) * 10 + (s[Len(s)] - 48)

AllDigits(s) == Len(s) >= 1 /\ \A i \in 1..Len(s) : IsDigit(s[i])

Max(a, b) == IF a >= b THEN a ELSE b

\* sync.RWMutex: w is the goroutine that has called Lock (0: none), r the
\* readers inside, rwait the readers that wait for the writer to unlock.
NoMu == [w |-> 0, r |-> {}, rwait |-> {}]

\* No server process: the store is used directly.
NoSrv == [phase |-> "off"]

\* Only one caller uses the store.
NoThreads ==
    /\ mu = NoMu
    /\ thr = << >>
    /\ base = << >>
    /\ srv = NoSrv

\* NewInMemoryStore: no collection, no counter.
InitStore ==
    /\ data = [t \in {} |-> EmptyMap]
    /\ counter = [t \in {} |-> 0]

Init ==
    /\ InitStore
    /\ op = NoOp
    /\ ret = NoRet
    /\ seen = [t \in EntityTypes |-> 0]
    /\ ngen = 0
    /\ prevq = NoPrev
    /\ pg = NoPg
    /\ NoThreads

(***************************************************************************)
(* Operations of InMemoryStore; each runs under the store's lock           *)
(***************************************************************************)
\* The caller is between two calls of the store.
Idle == op.name = "none"

\* A change of the store ends the validity of the recorded query.
Invalidate ==
    prevq' = IF data' = data /\ counter' = counter THEN prevq
             ELSE [NoPrev EXCEPT !.on = prevq.on]

Initialize(types) ==
    /\ Idle
    /\ UNCHANGED <<pg, concVars>>
    /\ data' = [t \in (DOMAIN data) \cup types |->
                   IF t \in DOMAIN data THEN data[t] ELSE EmptyMap]
    /\ counter' = [t \in (DOMAIN counter) \cup types |->
                   IF t \in DOMAIN counter THEN counter[t] ELSE 0]
    /\ op' = [NoOp EXCEPT !.name = "Initialize", !.types = types]
    /\ ret' = NoRet
    /\ UNCHANGED <<seen, ngen>>
    /\ Invalidate

PatchMergeTakesId(entity, body) ==
    [key \in (DOMAIN entity) \cup (DOMAIN body) |->
        IF key \in DOMAIN body THEN body[key] ELSE entity[key]]

\* The merge loop of Patch over the keys of the partial record.
PatchMerge(entity, body) ==
    [key \in (DOMAIN entity) \cup ((DOMAIN body) \ {"id"}) |->
        IF key \in DOMAIN body /\ key # "id" THEN body[key] ELSE entity[key]]

\* The branch of Create for a body that carries an id: the id is used as it
\* is, and an id that is not a string fails the type assertion.
CreateGivenMerging(entityType, body) ==
    IF body["id"].t # "string"
    THEN /\ ret' = Fail(Panic)
         /\ UNCHANGED <<data, counter, seen, ngen>>
    ELSE LET id == body["id"].s
             coll == data[entityType]
         IN /\ Size(data) < MaxRecords \/ id \in DOMAIN coll
            /\ data' = [data EXCEPT ![entityType] =
                           MapSet(@, id, IF id \in DOMAIN coll THEN PatchMerge(coll[id], body)
                                         ELSE copyMap(body))]
            /\ ret' = [NoRet EXCEPT !.id = id, !.old = Found(coll, id)]
            /\ UNCHANGED <<counter, seen, ngen>>

CreateGiven(entityType, body) ==
    IF body["id"].t # "string"
    THEN /\ ret' = Fail(Panic)
         /\ UNCHANGED <<data, counter, seen, ngen>>
    ELSE LET id == body["id"].s
         IN /\ Size(data) < MaxRecords \/ id \in DOMAIN data[entityType]
            /\ data' = [data EXCEPT ![entityType] = MapSet(@, id, copyMap(body))]
            /\ ret' = [NoRet EXCEPT !.id = id, !.old = Found(data[entityType], id)]
            /\ UNCHANGED <<counter, seen, ngen>>

\* The branch of Create for a body without an id: the counter is incremented
\* and formatted, and the ID is written into the record.
CreateGenerated(entityType, body) ==
    LET c == counter[entityType] + 1
        id == formatID(c)
        stored == MapSet(body, "id", StrV(id))
    IN /\ ngen < MaxGen
       /\ ngen' = ngen + 1
       /\ Size(data) < MaxRecords \/ id \in DOMAIN data[entityType]
       /\ counter' = [counter EXCEPT ![entityType] = c]
       /\ data' = [data EXCEPT ![entityType] = MapSet(@, id, copyMap(stored))]
       /\ ret' = [NoRet EXCEPT !.id = id, !.old = Found(data[entityType], id)]
       /\ seen' = [seen EXCEPT ![entityType] = Max(@, DecValue(id))]

Create(entityType, body) ==
    /\ Idle
    /\ UNCHANGED <<pg, concVars>>
    /\ op' = Call("Create", entityType, EmptyStr, body)
    /\ IF NoType(entityType)
       THEN /\ ret' = Fail(ErrEntityTypeNotFound)
            /\ UNCHANGED <<data, counter, seen, ngen>>
       ELSE IF Has(body, "id") /\ body["id"].t # "nil"
       THEN CreateGiven(entityType, body)
       ELSE CreateGenerated(entityType, body)
    /\ Invalidate

Get(entityType, id) ==
    /\ Idle
    /\ UNCHANGED <<prevq, pg, concVars>>
    /\ op' = Call("Get", entityType, id, EmptyMap)
    /\ ret' = IF NoType(entityType) THEN Fail(ErrEntityTypeNotFound)
              ELSE IF id \notin DOMAIN data[entityType] THEN Fail(ErrNotFound)
              ELSE [NoRet EXCEPT !.entity = copyMap(data[entityType][id])]
    /\ UNCHANGED <<data, counter, seen, ngen>>

List(entityType) ==
    /\ Idle
    /\ UNCHANGED <<prevq, pg, concVars>>
    /\ op' = Call("List", entityType, EmptyStr, EmptyMap)
    /\ IF NoType(entityType) THEN ret' = Fail(ErrEntityTypeNotFound)
       ELSE \E order \in MapOrders(DOMAIN data[entityType]) :
               ret' = [NoRet EXCEPT !.items =
                          [i \in 1..Len(order) |-> copyMap(data[entityType][order[i]])]]
    /\ UNCHANGED <<data, counter, seen, ngen>>

ListQuery(entityType, opts) ==
    /\ Idle
    /\ UNCHANGED <<prevq, pg, concVars>>
    /\ op' = [NoOp EXCEPT !.name = "ListQuery", !.et = entityType, !.opts = opts]
    /\ IF NoType(entityType) THEN ret' = Fail(ErrEntityTypeNotFound)
       ELSE \E order \in MapOrders(DOMAIN data[entityType]) :
               LET r == QueryOf(data[entityType], order, opts)
               IN ret' = [NoRet EXCEPT !.items = r.Items, !.total = r.TotalCount,
                                       !.next = r.NextCursor]
    /\ UNCHANGED <<data, counter, seen, ngen>>

UpdateStoredKeepsBodyId(id, body) ==
    copyMap(IF Has(body, "id") THEN body ELSE MapSet(body, "id", StrV(id)))

\* The record Update stores: the body with id set to the path id.
UpdateStored(id, body) == copyMap(MapSet(body, "id", StrV(id)))

Update(entityType, id, body) ==
    /\ Idle
    /\ UNCHANGED <<pg, concVars>>
    /\ op' = Call("Update", entityType, id, body)
    /\ IF NoType(entityType)
       THEN ret' = Fail(ErrEntityTypeNotFound) /\ UNCHANGED data
       ELSE IF id \notin DOMAIN data[entityType]
       THEN ret' = Fail(ErrNotFound) /\ UNCHANGED data
       ELSE /\ data' = [data EXCEPT ![entityType] =
                           MapSet(@, id, UpdateStored(id, body))]
            /\ ret' = [NoRet EXCEPT !.old = Found(data[entityType], id)]
    /\ UNCHANGED <<counter, seen, ngen>>
    /\ Invalidate

Patch(entityType, id, body) ==
    /\ Idle
    /\ UNCHANGED <<pg, concVars>>
    /\ op' = Call("Patch", entityType, id, body)
    /\ IF NoType(entityType)
       THEN ret' = Fail(ErrEntityTypeNotFound) /\ UNCHANGED data
       ELSE IF id \notin DOMAIN data[entityType]
       THEN ret' = Fail(ErrNotFound) /\ UNCHANGED data
       ELSE /\ data' = [data EXCEPT ![entityType] =
                           MapSet(@, id, PatchMerge(data[entityType][id], body))]
            /\ ret' = [NoRet EXCEPT !.old = Found(data[entityType], id)]
    /\ UNCHANGED <<counter, seen, ngen>>
    /\ Invalidate

Delete(entityType, id) ==
    /\ Idle
    /\ UNCHANGED <<pg, concVars>>
    /\ op' = Call("Delete", entityType, id, EmptyMap)
    /\ IF NoType(entityType)
       THEN ret' = Fail(ErrEntityTypeNotFound) /\ UNCHANGED data
       ELSE IF id \notin DOMAIN data[entityType]
       THEN ret' = Fail(ErrNotFound) /\ UNCHANGED data
       ELSE /\ data' = [data EXCEPT ![entityType] = MapDel(@, id)]
            /\ ret' = [NoRet EXCEPT !.old = Found(data[entityType], id)]
    /\ UNCHANGED <<counter, seen, ngen>>
    /\ Invalidate

RECURSIVE seedLoopKeepsCounter(_, _, _)
seedLoopKeepsCounter(entities, i, st) ==
    IF i > Len(entities) THEN st
    ELSE LET entity == entities[i] IN
         IF ~Has(entity, "id") THEN seedLoopKeepsCounter(entities, i + 1, st)
         ELSE IF entity["id"].t # "string" THEN seedLoopKeepsCounter(entities, i + 1, st)
         ELSE LET id == entity["id"].s
              IN seedLoopKeepsCounter(entities, i + 1,
                    [coll |-> MapSet(st.coll, id, copyMap(entity)),
                     ctr |-> st.ctr,
                     hw |-> IF AllDigits(id) THEN Max(st.hw, DecValue(id)) ELSE st.hw])

RECURSIVE seedLoopFirstWins(_, _, _)
seedLoopFirstWins(entities, i, st) ==
    IF i > Len(entities) THEN st
    ELSE LET entity == entities[i] IN
         IF ~Has(entity, "id") THEN seedLoopFirstWins(entities, i + 1, st)
         ELSE IF entity["id"].t # "string" THEN seedLoopFirstWins(entities, i + 1, st)
         ELSE LET id == entity["id"].s
                  numID == parseIDNumber(id)
              IN seedLoopFirstWins(entities, i + 1,
                    [coll |-> IF id \in DOMAIN st.coll THEN st.coll
                              ELSE MapSet(st.coll, id, copyMap(entity)),
                     ctr |-> IF numID > st.ctr THEN numID ELSE st.ctr,
                     hw |-> IF AllDigits(id) THEN Max(st.hw, DecValue(id)) ELSE st.hw])

\* The loop of Seed from entity i on; st = [coll, ctr, hw], hw being the
\* largest decimal value of an all-digit ID loaded so far.
RECURSIVE seedLoop(_, _, _)
seedLoop(entities, i, st) ==
    IF i > Len(entities) THEN st
    ELSE LET entity == entities[i] IN
         IF ~Has(entity, "id") THEN seedLoop(entities, i + 1, st)
         ELSE IF entity["id"].t # "string" THEN seedLoop(entities, i + 1, st)
         ELSE LET id == entity["id"].s
                  numID == parseIDNumber(id)
              IN seedLoop(entities, i + 1,
                    [coll |-> MapSet(st.coll, id, copyMap(entity)),
                     ctr |-> IF numID > st.ctr THEN numID ELSE st.ctr,
                     hw |-> IF AllDigits(id) THEN Max(st.hw, DecValue(id)) ELSE st.hw])

Seed(entityType, entities) ==
    /\ Idle
    /\ UNCHANGED <<pg, concVars>>
    /\ op' = [NoOp EXCEPT !.name = "Seed", !.et = entityType, !.list = entities]
    /\ IF NoType(entityType)
       THEN /\ ret' = Fail(ErrEntityTypeNotFound)
            /\ UNCHANGED <<data, counter, seen, ngen>>
       ELSE LET st == seedLoop(entities, 1,
                         [coll |-> data[entityType], ctr |-> counter[entityType],
                          hw |-> seen[entityType]])
            IN /\ Size(data) - Cardinality(DOMAIN data[entityType])
                    + Cardinality(DOMAIN st.coll) <= MaxRecords
               /\ data' = [data EXCEPT ![entityType] = st.coll]
               /\ counter' = [counter EXCEPT ![entityType] = st.ctr]
               /\ seen' = [seen EXCEPT ![entityType] = st.hw]
               /\ ret' = NoRet
               /\ UNCHANGED ngen
    /\ Invalidate

StoreStep ==
    \/ \E types \in { {"users"}, {"users", "tweets"} } : Initialize(types)
    \/ \E et \in EntityTypes : \E body \in CreateBodies(et) : Create(et, body)
    \/ \E et \in EntityTypes : \E id \in IdArgs(et) : Get(et, id)
    \/ \E et \in EntityTypes : List(et)
    \/ \E et \in EntityTypes : \E opts \in QueryArgs(et) : ListQuery(et, opts)
    \/ \E et \in EntityTypes : \E id \in IdArgs(et), body \in UpdateBodies(et) : Update(et, id, body)
    \/ \E et \in EntityTypes : \E id \in IdArgs(et), body \in UpdateBodies(et) : Patch(et, id, body)
    \/ \E et \in EntityTypes : \E id \in IdArgs(et) : Delete(et, id)
    \/ \E et \in EntityTypes : \E entities \in SeedLists(et) : Seed(et, entities)

\* The call returns: its result has been handed to the caller.
Return ==
    /\ ~Idle
    /\ pg.phase # "paging"
    /\ prevq' = IF prevq.on /\ op.name = "ListQuery" /\ ret.err = ErrNone
                THEN [on |-> TRUE, valid |-> TRUE, et |-> op.et, opts |-> op.opts, res |-> ret]
                ELSE prevq
    /\ op' = NoOp
    /\ ret' = NoRet
    /\ UNCHANGED <<data, counter, seen, ngen, pg, concVars>>

Next == StoreStep \/ Return

Spec == Init /\ [][Next]_vars

(***************************************************************************)
(* Queries over a seeded collection                                        *)
(***************************************************************************)
\* A seeded collection holds at most MaxQRecords records.
MaxQRecords == 3
\* Page sizes range up to MaxLimit.
MaxLimit == 2

QIds == { EmptyStr, S1, S10, S2 }
QSeedRecs == { Rec(<<StrV(i)>>, <<StrV(n)>>) : i \in QIds, n \in { Alice, Bob } }
QSeedLists == UNION { [1..k -> QSeedRecs] : k \in 0..MaxQRecords }

QFilters ==
    { NoFilters,
      [k \in {"name"} |-> Alice],
      [k \in {"name", "id"} |-> IF k = "name" THEN Alice ELSE S1] }

QOpts ==
    { [Filters |-> f, Limit |-> l, Offset |-> sk[1], Cursor |-> sk[2]] :
        f \in QFilters, l \in 0..MaxLimit,
        sk \in { <<0, EmptyStr>>, <<1, EmptyStr>>, <<0, S1>>, <<1, S1>> } }

\* The store after Initialize(["users"]) and Seed("users", entities).
Seeded(entities) ==
    LET st == seedLoop(entities, 1, [coll |-> EmptyMap, ctr |-> 0, hw |-> 0])
    IN /\ data = [t \in {"users"} |-> st.coll]
       /\ counter = [t \in {"users"} |-> st.ctr]
       /\ seen = [t \in EntityTypes |-> IF t = "users" THEN st.hw ELSE 0]
       /\ ngen = 0
       /\ op = NoOp
       /\ ret = NoRet
       /\ NoThreads

InitQuery ==
    /\ \E entities \in QSeedLists : Seeded(entities)
    /\ prevq = [NoPrev EXCEPT !.on = TRUE]
    /\ pg = NoPg

NextQuery ==
    \/ \E opts \in QOpts : ListQuery("users", opts)
    \/ \E id \in { S1, S2 } : Get("users", id)
    \/ List("users")
    \/ \E id \in { S1, S2 } : Delete("users", id)
    \/ Return

SpecQuery == InitQuery /\ [][NextQuery]_vars

(***************************************************************************)
(* A client that follows nextCursor from an empty cursor                   *)
(***************************************************************************)
InitPaging ==
    /\ \E entities \in QSeedLists : Seeded(entities)
    /\ prevq = NoPrev
    /\ \E f \in QFilters, l \in 1..MaxLimit :
          pg = [phase |-> "paging", et |-> "users",
                opts |-> [Filters |-> f, Limit |-> l, Offset |-> 0, Cursor |-> EmptyStr],
                visited |-> << >>]

\* The IDs of a sequence of items.
ItemIds(items) == [i \in 1..Len(items) |-> items[i]["id"].s]

\* The client requests the next page.
PageRequest ==
    /\ pg.phase = "paging"
    /\ ListQuery(pg.et, pg.opts)

\* The client receives the page: it stops when nextCursor is empty and
\* otherwise continues with the cursor set to nextCursor.
PageReceive ==
    /\ pg.phase = "paging"
    /\ op.name = "ListQuery"
    /\ pg' = [pg EXCEPT !.visited = @ \o ItemIds(ret.items),
                        !.opts = [@ EXCEPT !.Cursor = ret.next],
                        !.phase = IF ret.next = EmptyStr THEN "done" ELSE "paging"]
    /\ op' = NoOp
    /\ ret' = NoRet
    /\ UNCHANGED <<data, counter, seen, ngen, prevq, concVars>>

NextPaging == PageRequest \/ PageReceive

SpecPaging == InitPaging /\ [][NextPaging]_vars

(***************************************************************************)
(* Properties of the store operations                                      *)
(***************************************************************************)
\* The body carries no id: the key is missing or its value is null.
NoIdGiven(body) == ~Has(body, "id") \/ body["id"].t = "nil"
\* The body carries a caller-supplied string id.
IdGiven(body) == Has(body, "id") /\ body["id"].t = "string"

\* A decimal numeral without a leading zero.
IsDecimal(s) == AllDigits(s) /\ (Len(s) = 1 \/ s[1] # 48)

\* Every collection other than et, and every record of et other than id,
\* is the same in d1 and d2.
SameElsewhere(d1, d2, et, id) ==
    /\ DOMAIN d1 = DOMAIN d2
    /\ \A t \in DOMAIN d1 : t # et => d1[t] = d2[t]
    /\ \A k \in (DOMAIN d1[et]) \cup (DOMAIN d2[et]) :
          k # id => k \in DOMAIN d1[et] /\ k \in DOMAIN d2[et] /\ d1[et][k] = d2[et][k]

\* C2: every stored record has an id field that is a non-empty string and
\* equals the key it is stored under in its collection.
C2_RecordIdIsNonEmptyKey ==
    \A t \in DOMAIN data : \A k \in DOMAIN data[t] :
        /\ Has(data[t][k], "id")
        /\ data[t][k]["id"].t = "string"
        /\ data[t][k]["id"].s = k
        /\ data[t][k]["id"].s # EmptyStr

C4_GeneratedIdIsFresh ==
    [][(op'.name = "Create" /\ NoIdGiven(op'.body) /\ ret'.err = ErrNone)
          => /\ ret'.id \notin DOMAIN data[op'.et]
             /\ Cardinality(DOMAIN data'[op'.et]) = Cardinality(DOMAIN data[op'.et]) + 1]_vars

\* C8: Create with the id absent or empty increments the counter and uses its
\* new value in decimal as the record's ID; with a non-empty caller-supplied id
\* the counter is untouched and that id is used verbatim.
C8_CreateChoosesId ==
    [][(op'.name = "Create" /\ ret'.err = ErrNone)
          => LET et == op'.et
                 body == op'.body
             IN IF NoIdGiven(body) \/ body["id"] = StrV(EmptyStr)
                THEN /\ counter'[et] = counter[et] + 1
                     /\ IsDecimal(ret'.id) /\ DecValue(ret'.id) = counter'[et]
                     /\ ret'.id \in DOMAIN data'[et]
                     /\ data'[et][ret'.id]["id"] = StrV(ret'.id)
                ELSE /\ counter' = counter
                     /\ ret'.id = body["id"].s
                     /\ ret'.id \in DOMAIN data'[et]
                     /\ data'[et][ret'.id]["id"] = body["id"]]_vars

\* C9: Create with a caller-supplied id that is already stored succeeds,
\* replaces the stored record by exactly the new one, and leaves the size of
\* the collection, every other record and the counters unchanged.
C9_CreateOverwrites ==
    [][(/\ op'.name = "Create" /\ IdGiven(op'.body)
        /\ op'.et \in DOMAIN data
        /\ op'.body["id"].s \in DOMAIN data[op'.et])
          => LET et == op'.et
                 id == op'.body["id"].s
             IN /\ ret'.err = ErrNone
                /\ ret'.id = id
                /\ data'[et][id] = op'.body
                /\ Cardinality(DOMAIN data'[et]) = Cardinality(DOMAIN data[et])
                /\ SameElsewhere(data, data', et, id)
                /\ counter' = counter]_vars

\* A Create has replaced a record that had a name by one that has none,
\* next to another record.
C9_Witness ==
    /\ op.name = "Create" /\ IdGiven(op.body) /\ ret.err = ErrNone
    /\ ret.old # << >>
    /\ Has(ret.old[1], "name") /\ ~Has(op.body, "name")
    /\ Cardinality(DOMAIN data[op.et]) = 2

\* C10: Update on a stored id replaces the record by exactly the given fields
\* with id forced to the path id, under the same key; on an absent id it
\* returns NotFound and changes nothing.
C10_UpdateReplaces ==
    [][(op'.name = "Update" /\ op'.et \in DOMAIN data)
          => LET et == op'.et
                 id == op'.id
                 body == op'.body
             IN IF id \in DOMAIN data[et]
                THEN /\ ret'.err = ErrNone
                     /\ DOMAIN data'[et] = DOMAIN data[et]
                     /\ DOMAIN data'[et][id] = (DOMAIN body) \cup {"id"}
                     /\ data'[et][id]["id"] = StrV(id)
                     /\ \A f \in (DOMAIN body) \ {"id"} : data'[et][id][f] = body[f]
                     /\ SameElsewhere(data, data', et, id)
                     /\ counter' = counter
                ELSE /\ ret'.err = ErrNotFound
                     /\ data' = data
                     /\ counter' = counter]_vars

\* An Update whose body carries another id and no name has replaced a record
\* that had a name.
C10_Witness ==
    /\ op.name = "Update" /\ ret.err = ErrNone
    /\ IdGiven(op.body) /\ op.body["id"].s # op.id
    /\ ~Has(op.body, "name")
    /\ ret.old # << >> /\ Has(ret.old[1], "name")

(***************************************************************************)
(* Properties of ListQuery                                                 *)
(***************************************************************************)
\* The keys of the records of coll that match filters.
Matching(coll, filters) == { k \in DOMAIN coll : matchesFilters(coll[k], filters) }

\* The filter set with only the key k.
OnlyKey(filters, k) == [x \in {k} |-> filters[x]]

\* f2 is f1 with at least one more key.
ExtendsFilters(f2, f1) ==
    /\ DOMAIN f1 \subseteq DOMAIN f2
    /\ DOMAIN f1 # DOMAIN f2
    /\ \A k \in DOMAIN f1 : f2[k] = f1[k]

Ascending(ids) == \A i \in 1..(Len(ids) - 1) : StrLess(ids[i], ids[i + 1])

SeqRange(q) == { q[i] : i \in 1..Len(q) }

\* A ListQuery has returned a result.
Queried == op.name = "ListQuery" /\ ret.err = ErrNone

\* The ListQuery that has returned and the one recorded before it differ in
\* their filters only, the later one having more keys.
SameButMoreFilters ==
    /\ Queried /\ prevq.valid /\ prevq.et = op.et
    /\ prevq.opts.Limit = op.opts.Limit
    /\ prevq.opts.Offset = op.opts.Offset
    /\ prevq.opts.Cursor = op.opts.Cursor
    /\ ExtendsFilters(op.opts.Filters, prevq.opts.Filters)

\* Every record of the queried collection matches the filter set exactly when
\* it matches each key of the set alone; the empty set matches every record.
MatchesEachKey ==
    Queried =>
        \A k \in DOMAIN data[op.et] :
            LET entity == data[op.et][k]
                filters == op.opts.Filters
            IN /\ matchesFilters(entity, filters)
                    = (\A f \in DOMAIN filters : matchesFilters(entity, OnlyKey(filters, f)))
               /\ matchesFilters(entity, NoFilters)

\* C1: when the client that follows nextCursor from an empty cursor with a
\* limit >= 1 stops, it has received the IDs of exactly the matching records,
\* each once, in ascending order.
C1_PagingVisitsEachMatchOnce ==
    pg.phase = "done" =>
        /\ Ascending(pg.visited)
        /\ SeqRange(pg.visited) = Matching(data[pg.et], pg.opts.Filters)

\* C5: for limit >= 1 NextCursor is non-empty exactly when a matching record
\* lies after the returned page, and then it is the id of the last returned
\* item; without a limit NextCursor is empty.
C5_NextCursorSignalsMore ==
    Queried =>
        LET ids == ItemIds(ret.items)
            after == IF ids = << >> THEN {}
                     ELSE { k \in Matching(data[op.et], op.opts.Filters) :
                              StrLess(ids[Len(ids)], k) }
        IN IF op.opts.Limit >= 1
           THEN /\ (ret.next # EmptyStr) = (after # {})
                /\ ret.next # EmptyStr => ret.next = ids[Len(ids)]
           ELSE ret.next = EmptyStr

\* C6: a record matches a filter set iff it matches each key alone, and a
\* ListQuery with one more filter key, all else equal, returns no record the
\* other did not return and no larger TotalCount.
C6_MoreFiltersNeverAdd ==
    /\ MatchesEachKey
    /\ SameButMoreFilters =>
          /\ SeqRange(ret.items) \subseteq SeqRange(prevq.res.items)
          /\ ret.total <= prevq.res.total

\* C6 as the code has it: the matching set and TotalCount never grow with a
\* further filter key under any options; the returned items are among those
\* of the other query when no limit cuts the page.
C6_MoreFiltersNeverAddUnlimited ==
    /\ MatchesEachKey
    /\ SameButMoreFilters =>
          /\ Matching(data[op.et], op.opts.Filters)
                \subseteq Matching(data[op.et], prevq.opts.Filters)
          /\ ret.total <= prevq.res.total
          /\ op.opts.Limit = 0 =>
                SeqRange(ret.items) \subseteq SeqRange(prevq.res.items)

\* A query without limit and with two filter keys has returned one record
\* fewer than the same query with one key, which returned two.
C6_Witness ==
    /\ SameButMoreFilters
    /\ op.opts.Limit = 0
    /\ Cardinality(DOMAIN op.opts.Filters) = 2
    /\ Len(ret.items) = 1
    /\ Len(prevq.res.items) = 2

\* C7: Get, List and ListQuery leave data and counters unchanged, and a
\* ListQuery with the entity type and options of the one recorded before it,
\* the store unchanged since, returns the same Items, TotalCount and
\* NextCursor.
C7_QueryReadsAndRepeats ==
    [][/\ op'.name \in {"Get", "List", "ListQuery"} => data' = data /\ counter' = counter
       /\ (/\ op'.name = "ListQuery"
           /\ prevq.valid /\ prevq.et = op'.et /\ prevq.opts = op'.opts)
             => /\ ret'.err = ErrNone
                /\ ret'.items = prevq.res.items
                /\ ret'.total = prevq.res.total
                /\ ret'.next = prevq.res.next]_vars

\* The same limited query has returned a page of two records and a cursor
\* for the second time.
C7_Witness ==
    /\ Queried
    /\ prevq.valid /\ prevq.et = op.et /\ prevq.opts = op.opts
    /\ Len(ret.items) >= 2
    /\ ret.next # EmptyStr

(***************************************************************************)
(* Properties of Patch, Delete and the unknown entity type                 *)
(***************************************************************************)
\* C11: Patch on a stored id sets exactly the keys of the partial other than
\* id to their new values and leaves every other field, the record's id, every
\* other record and the counters unchanged, whatever id the partial carries;
\* on an absent id it returns NotFound and changes nothing.
C11_PatchMergesAllButId ==
    [][(op'.name = "Patch" /\ op'.et \in DOMAIN data)
          => LET et == op'.et
                 id == op'.id
                 body == op'.body
             IN IF id \in DOMAIN data[et]
                THEN LET before == data[et][id]
                         after == data'[et][id]
                     IN /\ ret'.err = ErrNone
                        /\ DOMAIN data'[et] = DOMAIN data[et]
                        /\ DOMAIN after = (DOMAIN before) \cup ((DOMAIN body) \ {"id"})
                        /\ \A f \in (DOMAIN body) \ {"id"} : after[f] = body[f]
                        /\ \A f \in (DOMAIN before) \ ((DOMAIN body) \ {"id"}) :
                              after[f] = before[f]
                        /\ after["id"] = before["id"]
                        /\ SameElsewhere(data, data', et, id)
                        /\ counter' = counter
                ELSE /\ ret'.err = ErrNotFound
                     /\ data' = data
                     /\ counter' = counter]_vars

\* A Patch whose partial carries another id and another name has changed the
\* name of a stored record and kept its id.
C11_Witness ==
    /\ op.name = "Patch" /\ ret.err = ErrNone
    /\ IdGiven(op.body) /\ op.body["id"].s # op.id
    /\ Has(op.body, "name")
    /\ ret.old # << >> /\ Has(ret.old[1], "name")
    /\ ret.old[1]["name"] # op.body["name"]
    /\ data[op.et][op.id]["name"] = op.body["name"]
    /\ data[op.et][op.id]["id"] = StrV(op.id)

\* The status the item handlers answer for the error of their store call;
\* ok is the status of success (200, or 204 for DELETE).
itemStatus(err, ok) ==
    IF err = ErrNone THEN ok
    ELSE IF err = ErrNotFound THEN 404
    ELSE IF err = ErrEntityTypeNotFound THEN 404
    ELSE 500

\* The call is on an initialized type and an id that is not stored.
OnAbsentId == op'.et \in DOMAIN data /\ op'.id \notin DOMAIN data[op'.et]

\* C12: a successful Delete (204) removes its id and only that record; Get,
\* Update, Patch and Delete on an id that is not stored return NotFound (404)
\* and change nothing, ListQuery returns stored ids only, and only Create and
\* Seed add an id to a collection: a deleted id stays gone until one of them
\* stores it again.
C12_DeletedStaysGone ==
    [][/\ (op'.name = "Delete" /\ ret'.err = ErrNone)
             => /\ op'.id \in DOMAIN data[op'.et]
                /\ op'.id \notin DOMAIN data'[op'.et]
                /\ SameElsewhere(data, data', op'.et, op'.id)
                /\ counter' = counter
                /\ itemStatus(ret'.err, 204) = 204
       /\ (op'.name \in {"Get", "Update", "Patch", "Delete"} /\ OnAbsentId)
             => /\ ret'.err = ErrNotFound
                /\ itemStatus(ret'.err, IF op'.name = "Delete" THEN 204 ELSE 200) = 404
                /\ data' = data
       /\ (op'.name = "ListQuery" /\ ret'.err = ErrNone)
             => SeqRange(ItemIds(ret'.items)) \subseteq DOMAIN data[op'.et]
       /\ \A t \in DOMAIN data :
             /\ t \in DOMAIN data'
             /\ (DOMAIN data'[t]) \ (DOMAIN data[t]) # {}
                   => op'.name \in {"Create", "Seed"} /\ op'.et = t]_vars

\* A Delete has removed one of two records, the other is still stored.
C12_Witness ==
    /\ op.name = "Delete" /\ ret.err = ErrNone
    /\ ret.old # << >>
    /\ op.id \notin DOMAIN data[op.et]
    /\ Cardinality(DOMAIN data[op.et]) = 1

\* The operations that take an entity type.
TypedOps == {"Create", "Get", "List", "ListQuery", "Update", "Patch", "Delete", "Seed"}

\* C13: every store operation called with an entity type that was not
\* initialized returns EntityTypeNotFound, whatever its id and body, and
\* leaves every collection and counter as it was: no collection appears.
C13_UnknownTypeRejected ==
    [][(op'.name \in TypedOps /\ op'.et \notin DOMAIN data)
          => /\ ret'.err = ErrEntityTypeNotFound
             /\ data' = data
             /\ counter' = counter]_vars

\* An Update on the uninitialized type, with an id that is stored under the
\* initialized one, has answered EntityTypeNotFound.
C13_Witness ==
    /\ op.name = "Update" /\ ret.err = ErrEntityTypeNotFound
    /\ op.et \notin DOMAIN data
    /\ "users" \in DOMAIN data /\ op.id \in DOMAIN data["users"]

(***************************************************************************)
(* Concurrent requests: goroutines calling the store under its RWMutex     *)
(***************************************************************************)
\* Number of goroutines, each serving one request.
MaxProcs == 3

Procs == 1..MaxProcs

\* A request: the handler that serves it, its entity type and its id.
Req(kind, et, id) == [kind |-> kind, et |-> et, id |-> id]

\* The requests goroutine p can serve.
RequestsOf(p) ==
    IF p = 1
    THEN { Req("POST", "users", EmptyStr), Req("DELETE", "users", S1),
           Req("PUT", "users", S1), Req("GET", "users", S1) }
    ELSE IF p = 2
    THEN { Req("POST", "users", EmptyStr), Req("POST", "tweets", EmptyStr),
           Req("PATCH", "users", S1), Req("SEED", "users", S2),
           Req("INIT", "tweets", EmptyStr) }
    ELSE IF p % 2 = 1
    THEN { Req("GET", "users", S1), Req("LIST", "users", EmptyStr) }
    ELSE { Req("POST", "users", EmptyStr), Req("LIST", "users", EmptyStr) }

\* The store calls a handler makes, in order; it stops at a failed call.
CallsOf(kind) ==
    CASE kind = "POST" -> <<"Create", "Get">>
      [] kind = "PUT" -> <<"Update", "Get">>
      [] kind = "PATCH" -> <<"Patch", "Get">>
      [] kind = "GET" -> <<"Get">>
      [] kind = "LIST" -> <<"ListQuery">>
      [] kind = "DELETE" -> <<"Delete">>
      [] kind = "SEED" -> <<"Seed">>
      [] kind = "INIT" -> <<"Initialize">>

LockKindAllShared(name) == "r"

\* The lock a store method takes: s.mu.RLock ("r") or s.mu.Lock ("w").
LockKind(name) == IF name \in {"Get", "List", "ListQuery"} THEN "r" ELSE "w"

\* The method goroutine p is calling or about to call.
Method(p) == CallsOf(thr[p].req.kind)[thr[p].call]

\* p is between the lock and the unlock of its method.
InCS(p) == thr[p].pc \in {"in", "in2", "out"}

\* The body written by the request of p (PUT, PATCH, POST).
BodyOf(p) == Rec(Absent, <<StrV(Bob)>>)

\* The stores the requests start from: users initialized and empty; users
\* and tweets initialized with record "1" seeded; the same with record "1"
\* created under a caller-supplied id, which leaves the counter at 0.
BaseStores ==
    LET one == [k \in {S1} |-> Rec(<<StrV(S1)>>, <<StrV(Alice)>>)]
    IN { [data |-> [t \in {"users"} |-> EmptyMap], counter |-> [t \in {"users"} |-> 0]],
         [data |-> [t \in EntityTypes |-> IF t = "users" THEN one ELSE EmptyMap],
          counter |-> [t \in EntityTypes |-> IF t = "users" THEN 1 ELSE 0]],
         [data |-> [t \in EntityTypes |-> IF t = "users" THEN one ELSE EmptyMap],
          counter |-> [t \in EntityTypes |-> 0]] }

InitConc ==
    /\ \E b \in BaseStores :
          /\ data = b.data
          /\ counter = b.counter
          /\ base = [t \in DOMAIN b.data |-> Cardinality(DOMAIN b.data[t])]
    /\ op = NoOp
    /\ ret = NoRet
    /\ seen = [t \in EntityTypes |-> 0]
    /\ ngen = 0
    /\ prevq = NoPrev
    /\ pg = NoPg
    /\ mu = NoMu
    /\ srv = NoSrv
    /\ \E reqs \in [Procs -> UNION { RequestsOf(p) : p \in Procs }] :
          /\ \A p \in Procs : reqs[p] \in RequestsOf(p)
          /\ thr = [p \in Procs |->
                      [req |-> reqs[p], call |-> 1, pc |-> "start", c |-> 0,
                       id |-> reqs[p].id, err |-> ErrNone]]

\* What the concurrent steps leave alone.
SeqVars == <<op, ret, seen, ngen, prevq, pg, base, srv>>

\* The goroutine after the unlock of its method: the next call of its
\* handler, or the end of the request.
Proceed(t) ==
    IF t.err = ErrNone /\ t.call < Len(CallsOf(t.req.kind))
    THEN [t EXCEPT !.call = t.call + 1, !.pc = "start"]
    ELSE [t EXCEPT !.pc = "done"]

\* s.mu.Lock(), first half: the writer announces itself; later readers wait.
Lock(p) ==
    /\ thr[p].pc = "start" /\ LockKind(Method(p)) = "w"
    /\ mu.w = 0
    /\ mu' = [mu EXCEPT !.w = p]
    /\ thr' = [thr EXCEPT ![p].pc = "wait"]
    /\ UNCHANGED <<data, counter, SeqVars>>

\* s.mu.Lock(), second half: the readers inside have left.
LockAcquired(p) ==
    /\ thr[p].pc = "wait" /\ mu.w = p /\ mu.r = {}
    /\ thr' = [thr EXCEPT ![p].pc = "in"]
    /\ UNCHANGED <<data, counter, mu, SeqVars>>

\* s.mu.RLock(): the reader enters unless a writer holds or awaits the lock.
RLock(p) ==
    /\ thr[p].pc = "start" /\ LockKind(Method(p)) = "r"
    /\ IF mu.w = 0
       THEN /\ mu' = [mu EXCEPT !.r = @ \cup {p}]
            /\ thr' = [thr EXCEPT ![p].pc = "in"]
       ELSE /\ mu' = [mu EXCEPT !.rwait = @ \cup {p}]
            /\ thr' = [thr EXCEPT ![p].pc = "blocked"]
    /\ UNCHANGED <<data, counter, SeqVars>>

\* Create, up to the increment of the counter read into a register.
CreateRead(p) ==
    /\ thr[p].pc = "in" /\ Method(p) = "Create"
    /\ thr' = IF NoType(thr[p].req.et)
              THEN [thr EXCEPT ![p].err = ErrEntityTypeNotFound, ![p].pc = "out"]
              ELSE [thr EXCEPT ![p].c = counter[thr[p].req.et] + 1, ![p].pc = "in2"]
    /\ UNCHANGED <<data, counter, mu, SeqVars>>

\* Create, from the store of the counter to the store of the record.
CreateWrite(p) ==
    /\ thr[p].pc = "in2"
    /\ LET et == thr[p].req.et
           id == formatID(thr[p].c)
       IN /\ counter' = [counter EXCEPT ![et] = thr[p].c]
          /\ data' = [data EXCEPT ![et] =
                         MapSet(@, id, copyMap(MapSet(BodyOf(p), "id", StrV(id))))]
          /\ thr' = [thr EXCEPT ![p].id = id, ![p].pc = "out"]
    /\ UNCHANGED <<mu, SeqVars>>

\* The body of every other method, on the store as it is.
Body(p) ==
    /\ thr[p].pc = "in" /\ Method(p) # "Create"
    /\ LET et == thr[p].req.et
           id == thr[p].id
           m == Method(p)
           missing == m \in {"Get", "Update", "Patch", "Delete"} /\ ~NoType(et)
                         /\ id \notin DOMAIN data[et]
           err == IF m # "Initialize" /\ NoType(et) THEN ErrEntityTypeNotFound
                  ELSE IF missing THEN ErrNotFound ELSE ErrNone
           st == seedLoop(<<Rec(<<StrV(id)>>, <<StrV(Alice)>>)>>, 1,
                          [coll |-> data[et], ctr |-> counter[et], hw |-> 0])
       IN /\ thr' = [thr EXCEPT ![p].err = err, ![p].pc = "out"]
          /\ IF err # ErrNone \/ m \in {"Get", "ListQuery"}
             THEN UNCHANGED <<data, counter>>
             ELSE CASE m = "Update" ->
                         /\ data' = [data EXCEPT ![et] = MapSet(@, id, UpdateStored(id, BodyOf(p)))]
                         /\ UNCHANGED counter
                    [] m = "Patch" ->
                         /\ data' = [data EXCEPT ![et] = MapSet(@, id, PatchMerge(@[id], BodyOf(p)))]
                         /\ UNCHANGED counter
                    [] m = "Delete" ->
                         /\ data' = [data EXCEPT ![et] = MapDel(@, id)]
                         /\ UNCHANGED counter
                    [] m = "Seed" ->
                         /\ data' = [data EXCEPT ![et] = st.coll]
                         /\ counter' = [counter EXCEPT ![et] = st.ctr]
                    [] m = "Initialize" ->
                         /\ data' = [t \in (DOMAIN data) \cup {et} |->
                                        IF t \in DOMAIN data THEN data[t] ELSE EmptyMap]
                         /\ counter' = [t \in (DOMAIN counter) \cup {et} |->
                                           IF t \in DOMAIN counter THEN counter[t] ELSE 0]
    /\ UNCHANGED <<mu, SeqVars>>

WakeNoReaders(m) == m

\* Unlock lets in every reader that waited for the writer.
WakeReaders(m) == [m EXCEPT !.r = m.rwait, !.rwait = {}]

\* The goroutines: p has unlocked, the readers in woken have entered.
AfterUnlock(p, woken) ==
    [q \in Procs |-> IF q = p THEN Proceed(thr[p])
                     ELSE IF q \in woken /\ thr[q].pc = "blocked"
                     THEN [thr[q] EXCEPT !.pc = "in"]
                     ELSE thr[q]]

\* defer s.mu.Unlock()
Unlock(p) ==
    /\ thr[p].pc = "out" /\ LockKind(Method(p)) = "w"
    /\ mu' = WakeReaders([mu EXCEPT !.w = 0])
    /\ thr' = AfterUnlock(p, mu'.r)
    /\ UNCHANGED <<data, counter, SeqVars>>

\* defer s.mu.RUnlock()
RUnlock(p) ==
    /\ thr[p].pc = "out" /\ LockKind(Method(p)) = "r"
    /\ mu' = [mu EXCEPT !.r = @ \ {p}]
    /\ thr' = [thr EXCEPT ![p] = Proceed(@)]
    /\ UNCHANGED <<data, counter, SeqVars>>

Step(p) ==
    \/ Lock(p)
    \/ LockAcquired(p)
    \/ RLock(p)
    \/ CreateRead(p)
    \/ CreateWrite(p)
    \/ Body(p)
    \/ Unlock(p)
    \/ RUnlock(p)

NextConc == \E p \in Procs : Step(p)

SpecConc == InitConc /\ [][NextConc]_vars

\* The scheduler runs every goroutine that can take a step.
SpecConcFair == SpecConc /\ \A p \in Procs : WF_vars(Step(p))

(***************************************************************************)
(* Properties of the concurrent requests                                   *)
(***************************************************************************)
\* The operations that change the store.
WriteOps == {"Initialize", "Create", "Update", "Patch", "Delete", "Seed"}

\* p is inside a write operation.
WriterInside(p) == InCS(p) /\ Method(p) \in WriteOps

\* C14: one lock guards the whole store: while a write operation is inside
\* its critical section no other operation, read or write, on any entity
\* type is inside one.
C14_WriterExcludesAll ==
    \A p \in Procs : WriterInside(p) => \A q \in Procs \ {p} : ~InCS(q)

\* A writer on tweets is inside while a reader of users waits for it and a
\* writer on users waits for the lock.
C14_Witness ==
    \E p, q, w \in Procs :
        /\ WriterInside(p) /\ thr[p].req.et = "tweets"
        /\ thr[q].pc = "blocked" /\ thr[q].req.et = "users"
        /\ thr[w].pc = "start" /\ Method(w) \in WriteOps /\ thr[w].req.et = "users"

\* Every request has been answered.
AllDone == \A p \in Procs : thr[p].pc = "done"

\* The goroutines that create a record of type t.
Creators(t) == { p \in Procs : thr[p].req.kind = "POST" /\ thr[p].req.et = t }

\* The requests are creations without an id and reads.
OnlyCreatesAndReads == \A p \in Procs : thr[p].req.kind \in {"POST", "GET", "LIST"}

\* C15: when concurrent Creates without an id and concurrent readers have
\* all returned, the Creates on one type have returned pairwise distinct IDs
\* and the collection holds exactly one record more per Create than before.
C15_ConcurrentCreatesAllKept ==
    (AllDone /\ OnlyCreatesAndReads) =>
        \A t \in DOMAIN data :
            /\ \A p, q \in Creators(t) : p # q => thr[p].id # thr[q].id
            /\ Cardinality(DOMAIN data[t]) = base[t] + Cardinality(Creators(t))

\* p has called a store method and is not yet inside it.
Acquiring(p) == thr[p].pc \in {"start", "wait", "blocked"}

\* p holds the lock, shared or exclusive.
Holds(p) == p \in mu.r \/ (mu.w = p /\ thr[p].pc # "wait")

\* C16: a goroutine that is acquiring the lock holds none, one that is inside
\* a method holds it, and under fair scheduling every request, whatever the
\* other requests are and however many store calls it makes, is eventually
\* answered with the lock released: each call has got the lock, completed
\* and unlocked.
C16_EveryCallCompletes ==
    /\ [](\A p \in Procs : /\ Acquiring(p) => ~Holds(p)
                          /\ InCS(p) => Holds(p))
    /\ <>[](AllDone /\ mu = NoMu)

\* A writer waits for a reader that is inside, and the re-fetch of another
\* request waits behind that writer.
C16_Witness ==
    \E p, q, w \in Procs :
        /\ thr[w].pc = "wait" /\ mu.w = w
        /\ InCS(p) /\ p \in mu.r
        /\ thr[q].pc = "blocked" /\ thr[q].call = 2 /\ q \in mu.rwait

(***************************************************************************)
(* The HTTP server: schema load, route registration, request dispatch      *)
(***************************************************************************)
\* A schema holds at most MaxRoutes custom routes.
MaxRoutes == 2

\* The bytes of the path segments and filter values that requests and
\* routes use as values.
Bytes(s) ==
    CASE s = "1" -> S1
      [] s = "2" -> S2
      [] s = "3" -> <<51>>
      [] s = "9" -> <<57>>
      [] s = "me" -> <<109, 101>>
      [] OTHER -> EmptyStr

\* A segment of a route path: a literal, or ":name".
Lit(s) == [p |-> FALSE, s |-> s]
Par(s) == [p |-> TRUE, s |-> s]

\* types.CustomRoute
CustomRoute(method, path, entity, filters) ==
    [Method |-> method, Path |-> path, Entity |-> entity, Filters |-> filters]

\* The custom routes a schema can declare: a nested resource with a mapped
\* parameter, an alias with a literal id, a parameter that passes through
\* under its own name, a mapping whose literal entry has the key the
\* parameter is mapped to, a parameter named id, and a path of two
\* parameters, which overlaps every item path.
RouteSet ==
    { CustomRoute("GET", <<Lit("users"), Par("userId"), Lit("tweets")>>, "tweets",
                  [k \in {"userId"} |-> "author_id"]),
      CustomRoute("get", <<Lit("users"), Lit("me")>>, "users",
                  [k \in {"id"} |-> "1"]),
      CustomRoute("GET", <<Lit("by"), Par("author_id")>>, "tweets",
                  [k \in {} |-> ""]),
      CustomRoute("GET", <<Lit("users"), Par("userId"), Lit("tweets")>>, "tweets",
                  [k \in {"userId", "author_id"} |->
                      IF k = "userId" THEN "author_id" ELSE "2"]),
      CustomRoute("GET", <<Lit("tweets"), Par("id")>>, "tweets",
                  [k \in {} |-> ""]),
      CustomRoute("GET", <<Par("coll"), Par("id")>>, "users",
                  [k \in {} |-> ""]) }

\* types.Field
Field(type, required) == [Type |-> type, Required |-> required]

\* types.Entity: the fields of the entities of the schemas.
EntityFields(e) ==
    IF e = "users"
    THEN [f \in {"id", "name"} |-> Field("string", TRUE)]
    ELSE [f \in {"id", "author_id"} |-> Field("string", f = "id")]

\* types.PaginationConfig
PaginationConfig(style, defaultLimit, maxLimit) ==
    [Style |-> style, DefaultLimit |-> defaultLimit, MaxLimit |-> maxLimit]

\* A nil pointer of the schema: no auth, no pagination, no template.
Nil == << >>

\* types.Schema with entities and custom routes only.
PlainSchema(es, rs) ==
    [Entities |-> es, Fields |-> [e \in es |-> EntityFields(e)], Routes |-> rs,
     Auth |-> Nil, Pagination |-> Nil, Single |-> Nil, List |-> Nil]

\* types.Schema: the declared entities and the custom routes.
Schemas ==
    { PlainSchema(es, rs) :
        es \in { {}, {"users"}, {"users", "tweets"} },
        rs \in UNION { [1..n -> RouteSet] : n \in 0..MaxRoutes } }

\* Loader.Validate: the error of a schema, "nil" if none. The entities of
\* Schemas have an id field of type string and valid field types.
Validate(schema) ==
    IF schema.Entities = {} THEN "ErrEmptySchema" ELSE ErrNone

\* strings.ToUpper on a method name.
ToUpper(m) == IF m = "get" THEN "GET" ELSE m

\* A pattern of the mux: a method ("" for any), segments, whether it ends
\* in "/" and matches the subtree, and its handler.
Pattern(method, segs, tree, h) == [method |-> method, segs |-> segs, tree |-> tree, h |-> h]

\* extractParamNames: the names of the ":" segments, in path order.
RECURSIVE extractParamNames(_)
extractParamNames(path) ==
    IF path = << >> THEN << >>
    ELSE (IF Head(path).p THEN <<Head(path).s>> ELSE << >>)
            \o extractParamNames(Tail(path))

\* RegisterRoutes: the patterns handed to mux.HandleFunc.
CrudPatterns(schema) ==
    UNION { { Pattern("", <<Lit(e)>>, FALSE, [kind |-> "collection", entity |-> e]),
              Pattern("", <<Lit(e)>>, TRUE, [kind |-> "item", entity |-> e]) } :
            e \in schema.Entities }

CustomPattern(route) ==
    Pattern(ToUpper(route.Method), route.Path, FALSE, [kind |-> "custom", route |-> route])

CustomPatterns(schema) == { CustomPattern(schema.Routes[i]) : i \in DOMAIN schema.Routes }

CatchAll == Pattern("", << >>, TRUE, [kind |-> "404"])

\* The headers, query parameters and body of a request that has none.
NoQuery == [k \in {} |-> << >>]
NoBody == [ok |-> FALSE, data |-> EmptyMap]

\* A request: method and path segments; the Authorization and Content-Type
\* headers ("" when missing), the query parameters with their values in
\* order, and the body, which is a JSON object or not.
Request(method, segs) ==
    [method |-> method, segs |-> segs, auth |-> EmptyStr, ctype |-> EmptyStr,
     query |-> NoQuery, body |-> NoBody]

\* A body that is a JSON object.
JsonBody(m) == [ok |-> TRUE, data |-> m]

\* http.ServeMux: the pattern matches the request. A segment of the request
\* is never empty, except the last one of a path that ends in "/", which
\* only a subtree pattern matches. A GET pattern also matches HEAD.
SegMatches(seg, s) == IF seg.p THEN s # "" ELSE seg.s = s

MethodMatches(pm, m) == pm = "" \/ pm = m \/ (pm = "GET" /\ m = "HEAD")

Matches(pat, req) ==
    /\ MethodMatches(pat.method, req.method)
    /\ IF pat.tree THEN Len(req.segs) > Len(pat.segs) ELSE Len(req.segs) = Len(pat.segs)
    /\ \A i \in 1..Len(pat.segs) : SegMatches(pat.segs[i], req.segs[i])

\* http.ServeMux: how the requests matched by two patterns relate; "sub"
\* is a strict subset (the first pattern is more specific), "super" the
\* converse.
Combine(r1, r2) ==
    IF r1 = "disjoint" \/ r2 = "disjoint" THEN "disjoint"
    ELSE IF r1 = "equiv" THEN r2
    ELSE IF r2 = "equiv" THEN r1
    ELSE IF r1 = r2 THEN r1
    ELSE "overlaps"

SegRel(a, b) ==
    IF a.p /\ b.p THEN "equiv"
    ELSE IF a.p THEN "super"
    ELSE IF b.p THEN "sub"
    ELSE IF a.s = b.s THEN "equiv" ELSE "disjoint"

RECURSIVE PrefixRel(_, _, _)
PrefixRel(a, b, n) ==
    IF n = 0 THEN "equiv"
    ELSE Combine(PrefixRel(a, b, n - 1), SegRel(a[n], b[n]))

PathRel(p, q) ==
    LET n == IF Len(p.segs) < Len(q.segs) THEN Len(p.segs) ELSE Len(q.segs)
        tail == IF ~p.tree /\ ~q.tree
                THEN IF Len(p.segs) = Len(q.segs) THEN "equiv" ELSE "disjoint"
                ELSE IF p.tree /\ q.tree
                THEN IF Len(p.segs) > Len(q.segs) THEN "sub"
                     ELSE IF Len(p.segs) < Len(q.segs) THEN "super" ELSE "equiv"
                ELSE IF p.tree
                THEN IF Len(q.segs) > Len(p.segs) THEN "super" ELSE "disjoint"
                ELSE IF Len(p.segs) > Len(q.segs) THEN "sub" ELSE "disjoint"
    IN Combine(PrefixRel(p.segs, q.segs, n), tail)

MethodRel(p, q) ==
    IF p.method = q.method THEN "equiv"
    ELSE IF p.method = "" THEN "super"
    ELSE IF q.method = "" THEN "sub"
    ELSE "disjoint"

PatternRel(p, q) == Combine(MethodRel(p, q), PathRel(p, q))

\* HandleFunc panics when a pattern conflicts with a registered one.
Conflict(patterns) ==
    \/ \E p, q \in patterns : p # q /\ PatternRel(p, q) \in {"equiv", "overlaps"}
    \/ \E p \in patterns : \E i, j \in DOMAIN p.segs :
          i # j /\ p.segs[i].p /\ p.segs[j] = p.segs[i]

\* Two routes of the schema give the same pattern.
SamePatternTwice(schema) ==
    \E i, j \in DOMAIN schema.Routes :
        i # j /\ CustomPattern(schema.Routes[i]) = CustomPattern(schema.Routes[j])

MuxOf(schema) == CrudPatterns(schema) \cup CustomPatterns(schema) \cup {CatchAll}

MuxHandlerCrudFirst(patterns, req) ==
    LET crud == { p \in patterns : p.method = "" }
    IN CHOOSE p \in crud :
          /\ Matches(p, req)
          /\ \A q \in crud : (q # p /\ Matches(q, req)) => PatternRel(p, q) = "sub"

\* http.ServeMux: the most specific of the patterns that match.
MuxHandler(patterns, req) ==
    CHOOSE p \in patterns :
        /\ Matches(p, req)
        /\ \A q \in patterns : (q # p /\ Matches(q, req)) => PatternRel(p, q) = "sub"

\* The seed records main loads for an entity.
Tweet(id, author) ==
    [k \in {"id", "author_id"} |-> StrV(IF k = "id" THEN id ELSE author)]

SeedData(et) ==
    IF et = "users"
    THEN << Rec(<<StrV(S1)>>, <<StrV(Alice)>>), Rec(<<StrV(S2)>>, <<StrV(Bob)>>) >>
    ELSE << Tweet(S1, S1), Tweet(S2, S1), Tweet(Bytes("3"), S2) >>

(***************************************************************************)
(* Response bodies and templates                                           *)
(***************************************************************************)
\* JSON values of a response body besides the values of record fields: an
\* object (a Go map), an array, and a Go int.
ObjV(m) == [t |-> "map", m |-> m]
ArrV(l) == [t |-> "array", l |-> l]
IntV(n) == [t |-> "int", n |-> n]

\* []map[string]interface{} as a JSON array of objects.
ItemsV(items) == ArrV([i \in 1..Len(items) |-> ObjV(items[i])])

\* The names of the template variables.
VarEntity == <<36, 101, 110, 116, 105, 116, 121>>
VarEntities == <<36, 101, 110, 116, 105, 116, 105, 101, 115>>
VarCount == <<36, 99, 111, 117, 110, 116>>
VarResultCount == <<36, 114, 101, 115, 117, 108, 116, 95, 99, 111, 117, 110, 116>>
VarNextToken == <<36, 110, 101, 120, 116, 95, 116, 111, 107, 101, 110>>

\* strings.Contains
Contains(s, sub) ==
    \E i \in 0..(Len(s) - Len(sub)) : SubSeq(s, i + 1, i + Len(sub)) = sub

\* strings.ReplaceAll for a non-empty old.
RECURSIVE ReplaceAll(_, _, _)
ReplaceAll(s, old, new) ==
    IF Len(s) < Len(old) THEN s
    ELSE IF SubSeq(s, 1, Len(old)) = old
    THEN new \o ReplaceAll(SubSeq(s, Len(old) + 1, Len(s)), old, new)
    ELSE <<Head(s)>> \o ReplaceAll(Tail(s), old, new)

\* fmt.Sprintf("%v", val) for the values that templates substitute inside a
\* longer string: an int prints in decimal, a string as it is.
SprintfAny(val) ==
    CASE val.t = "int" -> IF val.n = 0 THEN <<48>> ELSE formatLoop(val.n, << >>)
      [] val.t = "string" -> val.s
      [] OTHER -> SprintfV(val)

\* The loop of applyTemplate over the variables, for a string that is not
\* itself a variable name; order is the order in which the map of the
\* variables yields its keys.
RECURSIVE substLoop(_, _, _)
substLoop(result, bindings, order) ==
    IF order = << >> THEN result
    ELSE LET key == Head(order)
         IN substLoop(IF Contains(result, key)
                      THEN ReplaceAll(result, key, SprintfAny(bindings[key]))
                      ELSE result,
                      bindings, Tail(order))

applyTemplateVerbatim(tmpl, bindings, order) == tmpl

\* The string case of applyTemplate.
applyTemplateString(tmpl, bindings, order) ==
    IF tmpl.s \in DOMAIN bindings THEN bindings[tmpl.s]
    ELSE StrV(substLoop(tmpl.s, bindings, order))

RECURSIVE applyTemplate(_, _, _)
applyTemplate(template, bindings, order) ==
    CASE template.t = "string" -> applyTemplateString(template, bindings, order)
      [] template.t = "map" ->
            ObjV([k \in DOMAIN template.m |-> applyTemplate(template.m[k], bindings, order)])
      [] template.t = "array" ->
            ArrV([i \in 1..Len(template.l) |-> applyTemplate(template.l[i], bindings, order)])
      [] OTHER -> template

\* The values applyTemplate can return: one for each order in which the
\* map of the variables can be ranged over.
Templated(template, bindings) ==
    { applyTemplate(template, bindings, order) : order \in MapOrders(DOMAIN bindings) }

\* ErrorResponse{Error: message}
ErrorResponse == [t |-> "ErrorResponse"]
\* Nothing is written after the status.
NoData == [t |-> "none"]

\* What the server answers: status, the respond function that wrote the
\* body (single, list, error or none), the records in it, the handler that
\* answered, the filter set it gave to the store, the id it looked up, the
\* options of its ListQuery with the TotalCount and NextCursor returned, and
\* the JSON value of the body.
Resp(status, kind, items, by, filters, id) ==
    [status |-> status, kind |-> kind, items |-> items, by |-> by,
     filters |-> filters, id |-> id, opts |-> NoOpts, total |-> 0, next |-> EmptyStr,
     body |-> IF kind = "error" THEN ErrorResponse ELSE NoData]

NoReq == Request("", << >>)
NoResp == Resp(0, "none", << >>, "", NoFilters, EmptyStr)

\* respondError by a handler.
respondError(status, by, filters, id) == Resp(status, "error", << >>, by, filters, id)

\* respondSingle
respondSingle(schema, status, entity, by, filters, id) ==
    [Resp(status, "single", <<entity>>, by, filters, id) EXCEPT
        !.body = IF schema.Single # Nil
                 THEN applyTemplate(schema.Single[1], [v \in {VarEntity} |-> ObjV(entity)],
                                    <<VarEntity>>)
                 ELSE ObjV(entity)]

\* The metadata map of respondList.
ListMetadata(result) ==
    [v \in {VarEntities, VarCount, VarResultCount}
            \cup (IF result.NextCursor # EmptyStr THEN {VarNextToken} ELSE {}) |->
        IF v = VarEntities THEN ItemsV(result.Items)
        ELSE IF v = VarNextToken THEN StrV(result.NextCursor)
        ELSE IntV(Len(result.Items))]

\* The meta object of the implicit envelope.
ListMeta(schema, result) ==
    [k \in {"result_count"}
            \cup (IF schema.Pagination[1].Style = "cursor" /\ result.NextCursor # EmptyStr
                  THEN {"next_token"} ELSE {}) |->
        IF k = "result_count" THEN IntV(Len(result.Items)) ELSE StrV(result.NextCursor)]

EnvelopeAlways(schema, result) == schema.Pagination # Nil

\* respondList: whether the implicit envelope is produced.
Envelope(schema, result) ==
    /\ schema.Pagination # Nil
    /\ result.NextCursor # EmptyStr \/ result.TotalCount > Len(result.Items)

\* The bodies respondList can write.
respondListBody(schema, result) ==
    IF schema.List # Nil THEN Templated(schema.List[1], ListMetadata(result))
    ELSE IF Envelope(schema, result)
    THEN { ObjV([k \in {"data", "meta"} |->
                   IF k = "data" THEN ItemsV(result.Items) ELSE ObjV(ListMeta(schema, result))]) }
    ELSE { ItemsV(result.Items) }

\* respondList: the answers it can give.
respondList(schema, result, by, filters) ==
    { [Resp(200, "list", result.Items, by, filters, EmptyStr) EXCEPT !.body = body] :
        body \in respondListBody(schema, result) }

(***************************************************************************)
(* Handlers                                                                *)
(***************************************************************************)
\* The request is answered with resp.
Answer(req, resp) == srv' = [srv EXCEPT !.req = req, !.resp = resp]

\* The handler does not write to the store.
NoWrite == UNCHANGED <<data, counter, ngen>>

\* r.PathValue(name): the segment of the request at the place of ":name".
PathValue(route, req, name) ==
    LET i == CHOOSE k \in DOMAIN route.Path : route.Path[k] = Par(name)
    IN Bytes(req.segs[i])

\* The entries of the mapping whose keys are not path parameters, as they are.
StaticFilters(route, paramSet) ==
    [key \in (DOMAIN route.Filters) \ paramSet |-> Bytes(route.Filters[key])]

\* The loop over the path parameters, from parameter i on.
RECURSIVE paramLoop(_, _, _, _, _)
paramLoop(route, req, paramNames, i, filters) ==
    IF i > Len(paramNames) THEN filters
    ELSE LET paramName == paramNames[i]
             paramValue == PathValue(route, req, paramName)
             filterKey == IF paramName \in DOMAIN route.Filters
                          THEN route.Filters[paramName] ELSE paramName
         IN paramLoop(route, req, paramNames, i + 1,
                      IF paramValue # EmptyStr THEN MapSet(filters, filterKey, paramValue)
                      ELSE filters)

\* The filter set handleCustomRoute builds for a request.
CustomFilters(route, req) ==
    LET paramNames == extractParamNames(route.Path)
        paramSet == { paramNames[i] : i \in DOMAIN paramNames }
    IN paramLoop(route, req, paramNames, 1, StaticFilters(route, paramSet))

hasIDFilter(filters) == "id" \in DOMAIN filters

\* The QueryResult of a ListQuery, recorded with its options in the answer.
WithResult(resp, opts, result) ==
    [resp EXCEPT !.opts = opts, !.total = result.TotalCount, !.next = result.NextCursor]

\* The answer of handleCustomRoute for the result of its ListQuery.
CustomAnswer(result, filters) ==
    IF Len(result.Items) = 1 /\ hasIDFilter(filters)
    THEN { respondSingle(srv.schema, 200, result.Items[1], "custom", filters, EmptyStr) }
    ELSE respondList(srv.schema, result, "custom", filters)

handleCustomRoute(route, req) ==
    LET filters == CustomFilters(route, req)
        opts == [NoOpts EXCEPT !.Filters = filters]
    IN /\ IF NoType(route.Entity)
          THEN Answer(req, respondError(404, "custom", filters, EmptyStr))
          ELSE \E order \in MapOrders(DOMAIN data[route.Entity]) :
                  LET result == QueryOf(data[route.Entity], order, opts)
                  IN \E resp \in CustomAnswer(result, filters) :
                        Answer(req, WithResult(resp, opts, result))
       /\ NoWrite

\* strconv.Atoi: an optional sign and at least one digit.
Atoi(s) ==
    LET signed == Len(s) >= 1 /\ (s[1] = 43 \/ s[1] = 45)
        digits == IF signed THEN Tail(s) ELSE s
    IN IF AllDigits(digits)
       THEN [ok |-> TRUE, n |-> IF s[1] = 45 THEN 0 - DecValue(digits) ELSE DecValue(digits)]
       ELSE [ok |-> FALSE, n |-> 0]

\* url.Values.Get: the first value of the key, "" if there is none.
QueryGet(query, key) == IF key \in DOMAIN query THEN query[key][1] ELSE EmptyStr

\* getEntityFieldNames
getEntityFieldNames(schema, entityName) ==
    IF entityName \in schema.Entities THEN DOMAIN schema.Fields[entityName] ELSE {}

FilterKeysAnyName(schema, entityName, query) == DOMAIN query

\* buildQueryOpts: the query parameters that become filters.
FilterKeys(schema, entityName, query) ==
    { key \in DOMAIN query :
        /\ key \in getEntityFieldNames(schema, entityName)
        /\ key # "limit" /\ key # "offset" /\ key # "cursor" }

LimitOfAsGiven(pagConfig, query) ==
    LET default == IF pagConfig.DefaultLimit = 0 THEN 20 ELSE pagConfig.DefaultLimit
        limit == Atoi(QueryGet(query, "limit"))
        asked == IF QueryGet(query, "limit") # EmptyStr /\ limit.ok
                 THEN limit.n ELSE default
    IN IF pagConfig.MaxLimit > 0 /\ asked > pagConfig.MaxLimit
       THEN pagConfig.MaxLimit ELSE asked

\* buildQueryOpts: the limit of a schema with pagination.
LimitOf(pagConfig, query) ==
    LET default == IF pagConfig.DefaultLimit = 0 THEN 20 ELSE pagConfig.DefaultLimit
        limit == Atoi(QueryGet(query, "limit"))
        asked == IF QueryGet(query, "limit") # EmptyStr /\ limit.ok /\ limit.n > 0
                 THEN limit.n ELSE default
    IN IF pagConfig.MaxLimit > 0 /\ asked > pagConfig.MaxLimit
       THEN pagConfig.MaxLimit ELSE asked

OffsetOfNone(query) == 0

\* buildQueryOpts: the offset of a schema with offset pagination.
OffsetOf(query) ==
    LET offset == Atoi(QueryGet(query, "offset"))
    IN IF QueryGet(query, "offset") # EmptyStr /\ offset.ok /\ offset.n >= 0
       THEN offset.n ELSE 0

PaginatedAlways(schema) == TRUE

\* buildQueryOpts: s.schema.Pagination != nil
Paginated(schema) == schema.Pagination # Nil

buildQueryOpts(schema, entityName, req) ==
    LET keys == FilterKeys(schema, entityName, req.query)
        filters == [key \in keys |-> req.query[key][1]]
        pagConfig == IF schema.Pagination # Nil THEN schema.Pagination[1]
                     ELSE PaginationConfig("offset", 0, 0)
    IN IF ~Paginated(schema) THEN [NoOpts EXCEPT !.Filters = filters]
       ELSE [Filters |-> filters,
             Limit |-> LimitOf(pagConfig, req.query),
             Offset |-> IF pagConfig.Style = "cursor" THEN 0 ELSE OffsetOf(req.query),
             Cursor |-> IF pagConfig.Style = "cursor"
                        THEN QueryGet(req.query, "cursor") ELSE EmptyStr]

\* handleList
handleList(entity, req) ==
    LET opts == buildQueryOpts(srv.schema, entity, req)
    IN /\ IF NoType(entity)
          THEN Answer(req, respondError(404, "collection", opts.Filters, EmptyStr))
          ELSE \E order \in MapOrders(DOMAIN data[entity]) :
                  LET result == QueryOf(data[entity], order, opts)
                  IN \E resp \in respondList(srv.schema, result, "collection", opts.Filters) :
                        Answer(req, WithResult(resp, opts, result))
       /\ NoWrite

\* validateFieldType
validateFieldType(expectedType, value) ==
    \/ value.t = "nil"
    \/ CASE expectedType = "string" -> value.t = "string"
         [] expectedType = "number" -> value.t = "float64"
         [] expectedType = "boolean" -> value.t = "bool"
         [] expectedType = "object" -> value.t = "map"
         [] expectedType = "array" -> value.t = "slice"
         [] OTHER -> FALSE

\* Validator.validateEntityData: TRUE when the data is valid.
validateEntityData(fields, body, checkRequired) ==
    /\ checkRequired =>
          \A fieldName \in (DOMAIN fields) \ {"id"} :
              fields[fieldName].Required => fieldName \in DOMAIN body
    /\ \A fieldName \in (DOMAIN body) \ {"id"} :
          fieldName \in DOMAIN fields =>
              validateFieldType(fields[fieldName].Type, body[fieldName])

\* The body is a JSON object that passes the validator.
ValidBody(entity, req, checkRequired) ==
    /\ req.body.ok
    /\ entity \in srv.schema.Entities
    /\ validateEntityData(srv.schema.Fields[entity], req.body.data, checkRequired)

\* handleCreate calling Create before the validator: a body that fails
\* validation has taken an id by the time it is answered 400.
handleCreateBeforeValidation(entity, req) ==
    LET body == req.body.data
    IN IF NoType(entity)
       THEN Answer(req, respondError(404, "collection", NoFilters, EmptyStr)) /\ NoWrite
       ELSE IF ~ValidBody(entity, req, TRUE)
       THEN /\ Answer(req, respondError(400, "collection", NoFilters, EmptyStr))
            /\ counter' = [counter EXCEPT ![entity] = @ + 1]
            /\ UNCHANGED <<data, ngen>>
       ELSE IF Has(body, "id") /\ body["id"].t # "nil"
       THEN IF body["id"].t # "string"
            THEN Answer(req, Resp(0, "none", << >>, "collection", NoFilters, EmptyStr))
                 /\ NoWrite
            ELSE LET id == body["id"].s
                 IN /\ data' = [data EXCEPT ![entity] = MapSet(@, id, copyMap(body))]
                    /\ Answer(req, respondSingle(srv.schema, 201, copyMap(body),
                                                 "collection", NoFilters, id))
                    /\ UNCHANGED <<counter, ngen>>
       ELSE LET c == counter[entity] + 1
                id == formatID(c)
                stored == copyMap(MapSet(body, "id", StrV(id)))
            IN /\ ngen < MaxGen
               /\ ngen' = ngen + 1
               /\ counter' = [counter EXCEPT ![entity] = c]
               /\ data' = [data EXCEPT ![entity] = MapSet(@, id, stored)]
               /\ Answer(req, respondSingle(srv.schema, 201, stored,
                                            "collection", NoFilters, id))

\* handleCreate: Create and the Get of the created record. A body whose id
\* is not a string fails the type assertion of Create; net/http recovers
\* the panic and closes the connection without a response.
handleCreate(entity, req) ==
    LET body == req.body.data
    IN IF ~ValidBody(entity, req, TRUE)
       THEN Answer(req, respondError(400, "collection", NoFilters, EmptyStr)) /\ NoWrite
       ELSE IF NoType(entity)
       THEN Answer(req, respondError(404, "collection", NoFilters, EmptyStr)) /\ NoWrite
       ELSE IF Has(body, "id") /\ body["id"].t # "nil"
       THEN IF body["id"].t # "string"
            THEN Answer(req, Resp(0, "none", << >>, "collection", NoFilters, EmptyStr))
                 /\ NoWrite
            ELSE LET id == body["id"].s
                 IN /\ data' = [data EXCEPT ![entity] = MapSet(@, id, copyMap(body))]
                    /\ Answer(req, respondSingle(srv.schema, 201, copyMap(body),
                                                 "collection", NoFilters, id))
                    /\ UNCHANGED <<counter, ngen>>
       ELSE LET c == counter[entity] + 1
                id == formatID(c)
                stored == copyMap(MapSet(body, "id", StrV(id)))
            IN /\ ngen < MaxGen
               /\ ngen' = ngen + 1
               /\ counter' = [counter EXCEPT ![entity] = c]
               /\ data' = [data EXCEPT ![entity] = MapSet(@, id, stored)]
               /\ Answer(req, respondSingle(srv.schema, 201, stored,
                                            "collection", NoFilters, id))

\* handleGetOne
handleGetOne(entity, id, req) ==
    /\ Answer(req, IF NoType(entity) \/ id \notin DOMAIN data[entity]
                   THEN respondError(404, "item", NoFilters, id)
                   ELSE respondSingle(srv.schema, 200, copyMap(data[entity][id]),
                                      "item", NoFilters, id))
    /\ NoWrite

\* handleUpdate and handlePatch: the record that Update or Patch stores is
\* read back and returned.
handleWrite(entity, id, req, checkRequired) ==
    IF ~ValidBody(entity, req, checkRequired)
    THEN Answer(req, respondError(400, "item", NoFilters, id)) /\ NoWrite
    ELSE IF NoType(entity) \/ id \notin DOMAIN data[entity]
    THEN Answer(req, respondError(404, "item", NoFilters, id)) /\ NoWrite
    ELSE LET stored == IF checkRequired THEN UpdateStored(id, req.body.data)
                       ELSE PatchMerge(data[entity][id], req.body.data)
         IN /\ data' = [data EXCEPT ![entity] = MapSet(@, id, stored)]
            /\ Answer(req, respondSingle(srv.schema, 200, copyMap(stored),
                                         "item", NoFilters, id))
            /\ UNCHANGED <<counter, ngen>>

handleUpdate(entity, id, req) == handleWrite(entity, id, req, TRUE)

handlePatch(entity, id, req) == handleWrite(entity, id, req, FALSE)

\* handleDelete
handleDelete(entity, id, req) ==
    LET found == ~NoType(entity) /\ id \in DOMAIN data[entity]
    IN /\ Answer(req, Resp(itemStatus(IF found THEN ErrNone ELSE ErrNotFound, 204),
                           IF found THEN "none" ELSE "error", << >>, "item", NoFilters, id))
       /\ data' = IF found THEN [data EXCEPT ![entity] = MapDel(@, id)] ELSE data
       /\ UNCHANGED <<counter, ngen>>

\* handle404: a path under a collection is left without an answer, which
\* the server sends as an empty 200.
handle404(req) ==
    /\ Answer(req, IF Len(req.segs) >= 1 /\ req.segs[1] \in srv.schema.Entities
                   THEN Resp(200, "none", << >>, "404", NoFilters, EmptyStr)
                   ELSE respondError(404, "404", NoFilters, EmptyStr))
    /\ NoWrite

\* handleCollection
handleCollection(entity, req) ==
    IF req.segs # <<entity>> THEN handle404(req)
    ELSE IF req.method = "POST" THEN handleCreate(entity, req)
    ELSE IF req.method = "GET" THEN handleList(entity, req)
    ELSE Answer(req, respondError(405, "collection", NoFilters, EmptyStr)) /\ NoWrite

ItemIdAnyRest(req) == Len(req.segs) >= 2 /\ req.segs[2] # ""

\* handleItem: the rest of the path is an id, not empty and without "/".
ItemId(req) == Len(req.segs) = 2 /\ req.segs[2] # ""

\* handleItem
handleItem(entity, req) ==
    IF req.segs[1] # entity \/ ~ItemId(req)
    THEN Answer(req, respondError(404, "item", NoFilters, EmptyStr)) /\ NoWrite
    ELSE LET id == Bytes(req.segs[2])
         IN CASE req.method = "GET" -> handleGetOne(entity, id, req)
              [] req.method = "PUT" -> handleUpdate(entity, id, req)
              [] req.method = "PATCH" -> handlePatch(entity, id, req)
              [] req.method = "DELETE" -> handleDelete(entity, id, req)
              [] OTHER -> Answer(req, respondError(405, "item", NoFilters, id)) /\ NoWrite

\* "Bearer " and "application/json"
Bearer == <<66, 101, 97, 114, 101, 114, 32>>
ApplicationJson == <<97, 112, 112, 108, 105, 99, 97, 116, 105, 111, 110, 47, 106, 115, 111, 110>>

\* strings.HasPrefix
HasPrefix(s, prefix) == Len(s) >= Len(prefix) /\ SubSeq(s, 1, Len(prefix)) = prefix

AuthorizedAnyBearer(schema, req) == HasPrefix(req.auth, Bearer)

\* withMiddleware: no token is configured, or the header is "Bearer " + token.
Authorized(schema, req) ==
    schema.Auth = Nil \/ req.auth = Bearer \o schema.Auth[1]

ContentTypeOkAlways(req) == TRUE

\* withMiddleware: the content type of a POST, PUT or PATCH is JSON.
ContentTypeOk(req) ==
    req.method \in {"POST", "PUT", "PATCH"} => HasPrefix(req.ctype, ApplicationJson)

\* The handler of the pattern the mux selects for the request.
Dispatch(req) ==
    LET h == MuxHandler(srv.mux, req).h
    IN CASE h.kind = "custom" -> handleCustomRoute(h.route, req)
         [] h.kind = "collection" -> handleCollection(h.entity, req)
         [] h.kind = "item" -> handleItem(h.entity, req)
         [] OTHER -> handle404(req)

\* withMiddleware around the handler of the request.
withMiddleware(req) ==
    IF ~Authorized(srv.schema, req)
    THEN Answer(req, respondError(401, "middleware", NoFilters, EmptyStr)) /\ NoWrite
    ELSE IF ~ContentTypeOk(req)
    THEN Answer(req, respondError(415, "middleware", NoFilters, EmptyStr)) /\ NoWrite
    ELSE Dispatch(req)

(***************************************************************************)
(* The server process                                                      *)
(***************************************************************************)
\* A request with a JSON body and its content type.
JsonRequest(method, segs, body) ==
    [Request(method, segs) EXCEPT !.ctype = ApplicationJson, !.body = JsonBody(body)]

\* The requests sent to the server: reads and deletes on the generated and
\* the custom paths, and other methods on the paths of the custom routes.
Requests ==
    { Request("GET", segs) :
        segs \in { <<"users">>, <<"users", "1">>, <<"users", "me">>,
                   <<"users", "1", "tweets">>, <<"users", "2", "tweets">>,
                   <<"users", "9", "tweets">>, <<"by", "1">>,
                   <<"tweets", "1">>, <<"tweets", "9">>, <<"nothing">> } }
    \cup { Request("DELETE", segs) :
             segs \in { <<"users", "1">>, <<"users", "me">>, <<"tweets", "1">>,
                        <<"users", "1", "tweets">>, <<"by", "1">> } }
    \cup { Request("HEAD", segs) : segs \in { <<"users", "me">>, <<"by", "1">> } }
    \cup { JsonRequest("POST", segs, Rec(Absent, <<StrV(Bob)>>)) :
             segs \in { <<"users", "me">>, <<"by", "1">>, <<"users", "1", "tweets">> } }

\* What the server steps leave alone.
StoreVars == <<op, ret, seen, ngen, prevq, pg, mu, thr, base>>
ServeVars == <<op, ret, seen, prevq, pg, mu, thr, base>>

\* The process starts with a schema file and seed data.
ServerStart(schema, seed) ==
    /\ InitStore
    /\ op = NoOp
    /\ ret = NoRet
    /\ seen = [t \in EntityTypes |-> 0]
    /\ ngen = 0
    /\ prevq = NoPrev
    /\ pg = NoPg
    /\ mu = NoMu
    /\ thr = << >>
    /\ base = << >>
    /\ srv = [phase |-> "start", schema |-> schema, seed |-> seed, mux |-> {},
              req |-> NoReq, resp |-> NoResp]

InitServer == \E schema \in Schemas : ServerStart(schema, [t \in EntityTypes |-> SeedData(t)])

\* main: loader.LoadFromFile; a schema that fails validation ends the process.
LoadSchema ==
    /\ srv.phase = "start"
    /\ srv' = [srv EXCEPT !.phase = IF Validate(srv.schema) = ErrNone
                                    THEN "loaded" ELSE "failed"]
    /\ UNCHANGED <<data, counter, StoreVars>>

\* main: store.Initialize(entityNames) and store.Seed for each entity.
InitStorage ==
    /\ srv.phase = "loaded"
    /\ LET st(t) == seedLoop(srv.seed[t], 1, [coll |-> EmptyMap, ctr |-> 0, hw |-> 0])
       IN /\ data' = [t \in srv.schema.Entities |-> st(t).coll]
          /\ counter' = [t \in srv.schema.Entities |-> st(t).ctr]
    /\ srv' = [srv EXCEPT !.phase = "stored"]
    /\ UNCHANGED StoreVars

\* main: srv.RegisterRoutes and srv.Start; a panic of HandleFunc ends the
\* process.
RegisterRoutes ==
    /\ srv.phase = "stored"
    /\ srv' = IF Conflict(MuxOf(srv.schema)) \/ SamePatternTwice(srv.schema)
              THEN [srv EXCEPT !.phase = "failed"]
              ELSE [srv EXCEPT !.phase = "serving", !.mux = MuxOf(srv.schema)]
    /\ UNCHANGED <<data, counter, StoreVars>>

\* The server answers one request.
Serve(req) ==
    /\ srv.phase = "serving"
    /\ withMiddleware(req)
    /\ UNCHANGED ServeVars

NextServer ==
    \/ LoadSchema
    \/ InitStorage
    \/ RegisterRoutes
    \/ \E req \in Requests : Serve(req)

SpecServer == InitServer /\ [][NextServer]_vars

(***************************************************************************)
(* The server behind its middleware: methods, paths and headers            *)
(***************************************************************************)
\* The configured token, and header values.
Token == <<116>>
TextPlain == <<116, 101, 120, 116, 47, 112, 108, 97, 105, 110>>
JsonUtf8 == ApplicationJson \o <<59, 32, 99, 104, 97, 114, 115, 101, 116, 61, 117, 116, 102, 45, 56>>

\* Schemas with one entity, with or without the alias route and a token.
HttpSchemas ==
    { [PlainSchema({"users"}, rs) EXCEPT !.Auth = a] :
        rs \in { << >>,
                 << CustomRoute("GET", <<Lit("users"), Lit("me")>>, "users",
                                [k \in {"id"} |-> "1"]) >> },
        a \in { Nil, <<Token>> } }

\* A request with its Authorization and Content-Type headers and its body.
HttpRequest(method, segs, auth, ctype, body) ==
    [Request(method, segs) EXCEPT !.auth = auth, !.ctype = ctype, !.body = body]

HttpMethods == { "GET", "POST", "PUT", "PATCH", "DELETE", "OPTIONS" }

\* The paths: a collection, items, a collection with an empty id, a path
\* below an item, the path of the alias route, unknown paths and the root.
HttpPaths ==
    { <<"users">>, <<"users", "1">>, <<"users", "9">>, <<"users", "">>,
      <<"users", "1", "x">>, <<"users", "me">>, <<"nothing">>, <<"">> }

\* Authorization and Content-Type headers: no token or another token, with
\* and without a JSON content type; the token with a content type that is
\* missing, not JSON, JSON with a charset, or one byte short of JSON.
HttpHeaders ==
    { <<EmptyStr, EmptyStr>>, <<EmptyStr, JsonUtf8>>, <<Bearer \o <<120>>, TextPlain>>,
      <<Token, ApplicationJson>>,
      <<Bearer \o Token, EmptyStr>>, <<Bearer \o Token, TextPlain>>,
      <<Bearer \o Token, JsonUtf8>>, <<Bearer \o Token, SubSeq(ApplicationJson, 1, 15)>> }

\* Every method on every path with the token and a JSON body; the methods on
\* an item and an unknown path, and POST on a collection, with the header
\* combinations; and bodies that are not valid.
HttpRequests ==
    { HttpRequest(m, p, Bearer \o Token, ApplicationJson, JsonBody(Rec(Absent, <<StrV(Bob)>>))) :
        m \in HttpMethods, p \in HttpPaths }
    \cup { HttpRequest(mp[1], mp[2], h[1], h[2], JsonBody(Rec(Absent, <<StrV(Bob)>>))) :
             mp \in ((HttpMethods \ {"OPTIONS"}) \X { <<"users", "1">>, <<"nothing">> })
                        \cup { <<"POST", <<"users">> >> },
             h \in HttpHeaders }
    \cup { HttpRequest(m, p, Bearer \o Token, ApplicationJson, b) :
             m \in { "POST", "PUT" }, p \in { <<"users">>, <<"users", "1">> },
             b \in { NoBody, JsonBody(EmptyMap), JsonBody(Rec(Absent, <<NumV(7, 0)>>)) } }
    \cup { HttpRequest("PATCH", <<"users", "1">>, Bearer \o Token, ApplicationJson, b) :
             b \in { NoBody, JsonBody(EmptyMap), JsonBody(Rec(Absent, <<NumV(7, 0)>>)) } }

InitHttp ==
    \E schema \in HttpSchemas : ServerStart(schema, [t \in EntityTypes |-> SeedData(t)])

NextHttp ==
    \/ LoadSchema
    \/ InitStorage
    \/ RegisterRoutes
    \/ \E req \in HttpRequests : Serve(req)

SpecHttp == InitHttp /\ [][NextHttp]_vars

(***************************************************************************)
(* Properties of custom routes                                             *)
(***************************************************************************)
\* The schema has been accepted: the process went on after loading it.
Accepted == srv.phase \in {"loaded", "stored", "serving"}

\* The routes of the schema.
RoutesOf(schema) == { schema.Routes[i] : i \in DOMAIN schema.Routes }

\* The route matches the request by method and path.
RouteMatches(route, req) ==
    /\ ToUpper(route.Method) = req.method
    /\ Len(route.Path) = Len(req.segs)
    /\ \A i \in DOMAIN route.Path : route.Path[i].p \/ route.Path[i].s = req.segs[i]

\* A request has been answered by the handler of a custom route.
CustomServed == srv.phase = "serving" /\ srv.resp.by = "custom"

\* The route whose handler answered.
ServedRoute == CHOOSE route \in RoutesOf(srv.schema) : RouteMatches(route, srv.req)

\* The names of the path parameters of a route.
ParamsOf(route) == { route.Path[i].s : i \in { k \in DOMAIN route.Path : route.Path[k].p } }

\* The pairs the filter set of a request has to contain: one for each path
\* parameter, under its mapped name or its own, and one for each entry of
\* the mapping that is not a path parameter.
ExpectedPairs(route, req) ==
    { <<IF p \in DOMAIN route.Filters THEN route.Filters[p] ELSE p,
        PathValue(route, req, p)>> : p \in ParamsOf(route) }
    \cup { <<k, Bytes(route.Filters[k])>> : k \in (DOMAIN route.Filters) \ ParamsOf(route) }

\* The keys of the records of the route's entity that match every pair.
MatchingPairs(route, pairs) ==
    IF route.Entity \notin DOMAIN data THEN {}
    ELSE { id \in DOMAIN data[route.Entity] :
             \A pr \in pairs :
                 matchesFilters(data[route.Entity][id], [k \in {pr[1]} |-> pr[2]]) }

\* The ids of the records in the answer.
AnswerIds == SeqRange(ItemIds(srv.resp.items))

\* C17: a schema with a custom route whose entity is not declared is never
\* accepted: the process does not go on to initialize storage or to serve.
C17_UndeclaredRouteEntityRejected ==
    Accepted => \A route \in RoutesOf(srv.schema) : route.Entity \in srv.schema.Entities

\* C18: the filter set a custom route gives to the store holds the pair of
\* every path parameter and of every literal entry of the mapping, and the
\* answer lists exactly the records of the target entity matching them all.
C18_CustomRouteFilters ==
    CustomServed =>
        LET pairs == ExpectedPairs(ServedRoute, srv.req)
        IN /\ \A pr \in pairs :
                 pr[1] \in DOMAIN srv.resp.filters /\ srv.resp.filters[pr[1]] = pr[2]
           /\ srv.resp.kind \in {"single", "list"}
           /\ AnswerIds = MatchingPairs(ServedRoute, pairs)

\* C19: a custom route answers with a single entity iff its filter set has
\* the key id and exactly one record matches, and otherwise with status 200
\* and the list of the matching records.
C19_SingleIffIdAndOneMatch ==
    CustomServed =>
        LET filters == srv.resp.filters
            matches == IF ServedRoute.Entity \in DOMAIN data
                       THEN Matching(data[ServedRoute.Entity], filters) ELSE {}
        IN /\ srv.resp.status = 200
           /\ AnswerIds = matches
           /\ srv.resp.kind = IF hasIDFilter(filters) /\ Cardinality(matches) = 1
                              THEN "single" ELSE "list"

\* C20: a request that matches a custom route by method and path is
\* answered by the handler of that route, which looks up no id, also when
\* its path is a collection path followed by an id.
C20_CustomRouteFirst ==
    (srv.phase = "serving" /\ srv.resp # NoResp) =>
        ((\E route \in RoutesOf(srv.schema) : RouteMatches(route, srv.req))
            => (srv.resp.by = "custom" /\ srv.resp.id = EmptyStr))

\* GET /users/me, with users declared and the alias route filtering id = 1,
\* has been answered with the single record of id "1".
C20_Witness ==
    /\ srv.phase = "serving"
    /\ srv.req = Request("GET", <<"users", "me">>)
    /\ "users" \in srv.schema.Entities
    /\ srv.resp.by = "custom" /\ srv.resp.kind = "single"
    /\ srv.resp.items[1]["id"] = StrV(S1)

(***************************************************************************)
(* Properties of routing and of the middleware                             *)
(***************************************************************************)
\* The path of the request is the path of the route.
RoutePathMatches(route, req) ==
    /\ Len(route.Path) = Len(req.segs)
    /\ \A i \in DOMAIN route.Path :
          IF route.Path[i].p THEN req.segs[i] # "" ELSE route.Path[i].s = req.segs[i]

\* A request has been answered by a handler behind the middleware.
Handled == srv.phase = "serving" /\ srv.resp # NoResp /\ srv.resp.by # "middleware"

\* C22: a request on the path of a custom route with a method that no route
\* of that path declares is answered 405 and not by the handler of a custom
\* route, wherever the path lies.
C22_CustomPathOtherMethod ==
    (/\ Handled
     /\ \E route \in RoutesOf(srv.schema) : RoutePathMatches(route, srv.req)
     /\ \A route \in RoutesOf(srv.schema) :
           RoutePathMatches(route, srv.req) => ToUpper(route.Method) # srv.req.method)
        => (srv.resp.status = 405 /\ srv.resp.by # "custom")

\* A step in which the server answers the request srv'.req.
Served == srv.phase = "serving" /\ srv'.phase = "serving"

\* The store is as it was before the step.
StoreUntouched == data' = data /\ counter' = counter

\* The paths of the generated routes: a collection, and a collection
\* followed by one non-empty segment.
IsCollectionPath(schema, req) == Len(req.segs) = 1 /\ req.segs[1] \in schema.Entities
IsItemPath(schema, req) ==
    Len(req.segs) = 2 /\ req.segs[1] \in schema.Entities /\ req.segs[2] # ""

\* The status a request is to get when no route serves its method and path:
\* 405 on a generated path, 404 on a path of no route, 0 when neither is said.
Unrouted(schema, req) ==
    IF \E route \in RoutesOf(schema) : RouteMatches(route, req) THEN 0
    ELSE IF IsCollectionPath(schema, req)
    THEN IF req.method \in {"GET", "POST"} THEN 0 ELSE 405
    ELSE IF IsItemPath(schema, req)
    THEN IF req.method \in {"GET", "PUT", "PATCH", "DELETE"} THEN 0 ELSE 405
    ELSE IF \E route \in RoutesOf(schema) : RoutePathMatches(route, req) THEN 0
    ELSE 404

PassesAuth(schema, req) == schema.Auth = Nil \/ req.auth = Bearer \o schema.Auth[1]

\* C30: a POST, PUT or PATCH that passes the auth check and whose
\* Content-Type does not start with application/json is answered 415 by the
\* middleware and the store and counters are unchanged; a GET or DELETE is
\* never answered 415.
C30_ContentTypeChecked ==
    [][Served =>
         /\ (/\ PassesAuth(srv.schema, srv'.req)
             /\ srv'.req.method \in {"POST", "PUT", "PATCH"}
             /\ ~HasPrefix(srv'.req.ctype, ApplicationJson))
               => (/\ srv'.resp.status = 415 /\ srv'.resp.by = "middleware"
                   /\ StoreUntouched)
         /\ srv'.req.method \in {"GET", "DELETE"} => srv'.resp.status # 415]_vars

\* A PATCH of a stored record with the token and a Content-Type one byte
\* short of application/json has been answered 415.
C30_Witness ==
    /\ srv.phase = "serving" /\ srv.schema.Auth # Nil
    /\ srv.req.ctype = SubSeq(ApplicationJson, 1, 15) /\ srv.req.auth = Bearer \o Token
    /\ srv.req.method = "PATCH" /\ srv.req.segs = <<"users", "1">>
    /\ srv.resp.status = 415

(***************************************************************************)
(* The list endpoint                                                       *)
(***************************************************************************)
\* The users of a schema whose entity also has an optional field "limit".
ListFields ==
    [e \in {"users"} |->
        [f \in {"id", "name", "limit"} |->
            IF f = "limit" THEN Field("number", FALSE) ELSE Field("string", TRUE)]]

\* The templates of a response_wrapper block: {"data": "$entity"} and a list
\* template with whole-leaf variables, a variable inside a longer string and
\* a number.
SingleTemplate == ObjV([k \in {"data"} |-> StrV(VarEntity)])
ListTemplate ==
    ObjV([k \in {"data", "count", "note", "next", "v"} |->
            CASE k = "data" -> StrV(VarEntities)
              [] k = "count" -> StrV(VarCount)
              [] k = "note" -> StrV(<<110, 61>> \o VarCount)
              [] k = "next" -> StrV(VarNextToken)
              [] OTHER -> NumV(1, 0)])

ListPaginations ==
    { Nil } \cup { <<PaginationConfig(style, d, mx)>> :
                     style \in {"offset", "cursor"}, d \in 0..MaxLimit, mx \in 0..1 }

ListSchemas ==
    { [PlainSchema({"users"}, << >>) EXCEPT
          !.Fields = ListFields, !.Pagination = pag,
          !.Single = IF wrapped THEN <<SingleTemplate>> ELSE Nil,
          !.List = IF wrapped THEN <<ListTemplate>> ELSE Nil] :
        pag \in ListPaginations, wrapped \in BOOLEAN }

\* The seed files: users in the order of their IDs as numbers, which is not
\* the order of the IDs as strings.
S3 == <<51>>
ListPool ==
    << Rec(<<StrV(S1)>>, <<StrV(Alice)>>), Rec(<<StrV(S2)>>, <<StrV(Bob)>>),
       Rec(<<StrV(S3)>>, <<StrV(Alice)>>), Rec(<<StrV(S10)>>, <<StrV(Alice)>>) >>

RECURSIVE Pick(_, _)
Pick(pool, chosen) ==
    IF pool = << >> THEN << >>
    ELSE (IF Len(pool) \in chosen THEN Pick(SubSeq(pool, 1, Len(pool) - 1), chosen)
                                        \o <<pool[Len(pool)]>>
          ELSE Pick(SubSeq(pool, 1, Len(pool) - 1), chosen))

ListSeeds ==
    { Pick(ListPool, chosen) :
        chosen \in { c \in SUBSET (1..Len(ListPool)) : Cardinality(c) <= MaxQRecords } }

\* url.Values of a query string given as a set of <<key, values>> pairs.
QueryWith(pairs) ==
    [k \in { p[1] : p \in pairs } |-> (CHOOSE p \in pairs : p[1] = k)[2]]

Param(key, values) == { {} } \cup { { <<key, <<v>> >> } : v \in values }

ListQueries ==
    { QueryWith(l \cup o \cup c \cup n) :
        l \in Param("limit", { S1, S2, <<48>>, <<120>>, <<45, 49>> }),
        o \in Param("offset", { S1, S2, <<45, 49>> }),
        c \in Param("cursor", { S1, <<57>> }),
        n \in Param("name", { Alice }) }
    \cup
    { QueryWith(n \cup i \cup q \cup l) :
        n \in Param("name", { Alice }) \cup { { <<"name", <<Bob, Alice>> >> } },
        i \in Param("id", { S3 }),
        q \in Param("q", { Alice }),
        l \in Param("limit", { S1 }) }
    \cup
    { QueryWith(m \cup l \cup n) :
        m \in { { <<"max_results", <<v>> >> } : v \in { S1, S2 } },
        l \in Param("limit", { S2 }),
        n \in Param("name", { Alice }) }

ListRequests ==
    { [Request("GET", <<"users">>) EXCEPT !.query = q] : q \in ListQueries }
    \cup { Request("GET", <<"users", id>>) : id \in { "1", "9" } }

InitList == \E schema \in ListSchemas, seed \in ListSeeds :
                ServerStart(schema, [t \in EntityTypes |-> IF t = "users" THEN seed ELSE << >>])

\* The client has read the response; the next request follows.
Consume ==
    /\ srv.phase = "serving"
    /\ srv.resp # NoResp
    /\ srv' = [srv EXCEPT !.req = NoReq, !.resp = NoResp]
    /\ UNCHANGED <<data, counter, StoreVars>>

\* One client that sends its requests one after the other.
NextList ==
    \/ LoadSchema
    \/ InitStorage
    \/ RegisterRoutes
    \/ srv.resp = NoResp /\ \E req \in ListRequests : Serve(req)
    \/ Consume

SpecList == InitList /\ [][NextList]_vars

ListTypeOK == srv.phase \in {"start", "loaded", "stored", "serving", "failed"}

(***************************************************************************)
(* Properties of list responses                                            *)
(***************************************************************************)
\* The last request was answered by the list handler of the collection.
ListAnswered ==
    /\ srv.phase = "serving"
    /\ srv.resp.kind = "list"
    /\ srv.resp.by = "collection"

\* The JSON array whose elements are the objects of items, in their order.
IsArrayOf(v, items) ==
    /\ v.t = "array"
    /\ Len(v.l) = Len(items)
    /\ \A i \in 1..Len(items) : v.l[i].t = "map" /\ v.l[i].m = items[i]

\* C23: a template leaf that is exactly a variable name is replaced by the
\* variable's value with its type: under the single template
\* {"data": "$entity"} the body of GET /users/{id} is {"data": R} with R an
\* object equal to the stored record field for field, and under a list
\* template the leaf "$entities" is the array of the returned items and the
\* leaf "$count" the integer number of returned items.
C23_TemplateLeaves ==
    srv.phase = "serving" =>
        /\ (srv.schema.Single = <<SingleTemplate>> /\ srv.resp.kind = "single") =>
              LET body == srv.resp.body
                  stored == data["users"][srv.resp.id]
              IN /\ body.t = "map"
                 /\ DOMAIN body.m = {"data"}
                 /\ body.m["data"].t = "map"
                 /\ DOMAIN body.m["data"].m = DOMAIN stored
                 /\ \A f \in DOMAIN stored : body.m["data"].m[f] = stored[f]
        /\ (srv.schema.List = <<ListTemplate>> /\ srv.resp.kind = "list") =>
              LET body == srv.resp.body
              IN /\ body.t = "map"
                 /\ IsArrayOf(body.m["data"], srv.resp.items)
                 /\ body.m["count"] = [t |-> "int", n |-> Len(srv.resp.items)]

\* C23 witness: GET /users/1 is answered with the record under the single
\* template.
C23_Witness ==
    /\ srv.phase = "serving"
    /\ srv.schema.Single = <<SingleTemplate>>
    /\ srv.resp.kind = "single"
    /\ srv.resp.status = 200
    /\ srv.resp.id = S1
    /\ srv.resp.body.m["data"].m["name"] = StrV(Alice)

\* C24: with no list template, the body of a list response is the envelope
\* {data: items, meta: {result_count: number of returned items, ...}} iff
\* pagination is configured and NextCursor is non-empty or TotalCount
\* exceeds the number of returned items; otherwise it is the bare array of
\* the items. meta.next_token is present only in cursor style with a
\* non-empty NextCursor, and then equals it.
C24_ImplicitEnvelope ==
    (ListAnswered /\ srv.schema.List = Nil) =>
        LET items == srv.resp.items
            body == srv.resp.body
            pag == srv.schema.Pagination
        IN IF pag # Nil /\ (srv.resp.next # EmptyStr \/ srv.resp.total > Len(items))
           THEN /\ body.t = "map"
                /\ DOMAIN body.m = {"data", "meta"}
                /\ IsArrayOf(body.m["data"], items)
                /\ body.m["meta"].t = "map"
                /\ {"result_count"} \subseteq DOMAIN body.m["meta"].m
                /\ DOMAIN body.m["meta"].m \subseteq {"result_count", "next_token"}
                /\ body.m["meta"].m["result_count"] = [t |-> "int", n |-> Len(items)]
                /\ "next_token" \in DOMAIN body.m["meta"].m
                      <=> (pag[1].Style = "cursor" /\ srv.resp.next # EmptyStr)
                /\ "next_token" \in DOMAIN body.m["meta"].m
                      => body.m["meta"].m["next_token"] = StrV(srv.resp.next)
           ELSE IsArrayOf(body, items)

\* C24 witness: a first page in cursor style, cut by the limit, in the
\* envelope with its next_token.
C24_Witness ==
    /\ ListAnswered
    /\ srv.schema.List = Nil
    /\ srv.schema.Pagination # Nil
    /\ srv.schema.Pagination[1].Style = "cursor"
    /\ Len(srv.resp.items) = 1
    /\ srv.resp.next = S1
    /\ srv.resp.body.t = "map"
    /\ srv.resp.body.m["meta"].m["next_token"] = StrV(S1)

\* The IDs that sort below id among ids.
Below(ids, id) == { y \in ids : StrLess(y, id) }

\* The value of the query parameter offset in a request that has none or
\* gives a decimal numeral.
OffsetAsked(req) ==
    IF "offset" \in DOMAIN req.query THEN DecValue(req.query["offset"][1]) ELSE 0

\* C25: in offset style with effective limit L and offset k >= 0, the
\* response holds the matching records at positions k .. k+L-1 of the
\* matching records sorted by ID as strings: fewer at the end, none when k
\* is at or beyond their number. Without a limit parameter L is the
\* defaultLimit (within the maximum), and the envelope's result_count is the
\* number of records in the page.
C25_OffsetPage ==
    (/\ ListAnswered
     /\ srv.schema.Pagination # Nil
     /\ srv.schema.Pagination[1].Style = "offset"
     /\ "offset" \in DOMAIN srv.req.query => AllDigits(srv.req.query["offset"][1])) =>
        LET k == OffsetAsked(srv.req)
            L == srv.resp.opts.Limit
            pag == srv.schema.Pagination[1]
            ids == ItemIds(srv.resp.items)
            matching == Matching(data["users"], srv.resp.filters)
            n == Cardinality(matching)
        IN /\ L > 0
           /\ ("limit" \notin DOMAIN srv.req.query /\ pag.DefaultLimit > 0
                  /\ (pag.MaxLimit = 0 \/ pag.DefaultLimit <= pag.MaxLimit))
                 => L = pag.DefaultLimit
           /\ Len(ids) = IF k >= n THEN 0 ELSE IF n - k < L THEN n - k ELSE L
           /\ \A j \in 1..Len(ids) :
                 /\ ids[j] \in matching
                 /\ Cardinality(Below(matching, ids[j])) = k + j - 1
                 /\ srv.resp.items[j] = data["users"][ids[j]]
           /\ (srv.schema.List = Nil /\ srv.resp.body.t = "map")
                 => srv.resp.body.m["meta"].m["result_count"]
                        = [t |-> "int", n |-> Len(ids)]

\* C25 witness: GET /users?offset=1 with defaultLimit 1 over the users 1, 10
\* and 2 answers the second record by sorted ID, "10", with result_count 1.
C25_Witness ==
    /\ ListAnswered
    /\ srv.schema.List = Nil
    /\ srv.schema.Pagination # Nil
    /\ srv.schema.Pagination[1] = PaginationConfig("offset", 1, 0)
    /\ DOMAIN srv.req.query = {"offset"}
    /\ srv.req.query["offset"] = <<S1>>
    /\ DOMAIN data["users"] = {S1, S2, S10}
    /\ ItemIds(srv.resp.items) = <<S10>>
    /\ srv.resp.body.t = "map"
    /\ srv.resp.body.m["meta"].m["result_count"] = [t |-> "int", n |-> 1]

\* C26: when the schema has no pagination block, limit, offset and cursor
\* have no effect on a collection GET: none of them is a filter, even where
\* the entity has a field of that name, and the response is the complete
\* list of the records matching the filters, in ID order, as a bare array
\* or under the list template.
C26_NoPaginationBlock ==
    (ListAnswered /\ srv.schema.Pagination = Nil) =>
        LET ids == ItemIds(srv.resp.items)
            matching == Matching(data["users"], srv.resp.filters)
        IN /\ srv.resp.status = 200
           /\ DOMAIN srv.resp.filters \cap {"limit", "offset", "cursor"} = {}
           /\ SeqRange(ids) = matching
           /\ Len(ids) = Cardinality(matching)
           /\ Ascending(ids)
           /\ \A j \in 1..Len(ids) : srv.resp.items[j] = data["users"][ids[j]]
           /\ IF srv.schema.List = Nil THEN IsArrayOf(srv.resp.body, srv.resp.items)
              ELSE /\ IsArrayOf(srv.resp.body.m["data"], srv.resp.items)
                   /\ srv.resp.body.m["count"] = [t |-> "int", n |-> Len(ids)]

\* C26 witness: GET /users?limit=1&offset=1&cursor=1 with no pagination
\* block answers all three users as a bare array.
C26_Witness ==
    /\ ListAnswered
    /\ srv.schema.Pagination = Nil
    /\ srv.schema.List = Nil
    /\ DOMAIN srv.req.query = {"limit", "offset", "cursor"}
    /\ srv.req.query["limit"] = <<S1>>
    /\ srv.req.query["offset"] = <<S1>>
    /\ srv.req.query["cursor"] = <<S1>>
    /\ ItemIds(srv.resp.items) = <<S1, S10, S2>>
    /\ srv.resp.body.t = "array"

\* C27: with pagination configured, GET /users?max_results=n, with n a
\* positive integer within the configured maximum and no limit parameter,
\* returns at most n items.
C27_MaxResultsIsPageSize ==
    (/\ ListAnswered
     /\ srv.schema.Pagination # Nil
     /\ "max_results" \in DOMAIN srv.req.query
     /\ "limit" \notin DOMAIN srv.req.query
     /\ AllDigits(srv.req.query["max_results"][1])
     /\ DecValue(srv.req.query["max_results"][1]) > 0
     /\ \/ srv.schema.Pagination[1].MaxLimit = 0
        \/ DecValue(srv.req.query["max_results"][1]) <= srv.schema.Pagination[1].MaxLimit) =>
        Len(srv.resp.items) <= DecValue(srv.req.query["max_results"][1])

\* The query parameters that name a field of the entity and are not
\* pagination controls.
FieldParams(schema, entityName, req) ==
    (DOMAIN req.query \cap DOMAIN schema.Fields[entityName]) \ {"limit", "offset", "cursor"}

\* The record has the field and its value is the string value.
FieldIs(entity, field, value) ==
    /\ field \in DOMAIN entity
    /\ entity[field].t = "string"
    /\ entity[field].s = value

\* The stored users that pass each field parameter of the request on its
\* own, by its first value.
Filtered(req) ==
    { id \in DOMAIN data["users"] :
        \A k \in FieldParams(srv.schema, "users", req) :
            FieldIs(data["users"][id], k, req.query[k][1]) }

\* C28: on a collection GET every query parameter that names a field of the
\* entity, other than limit, offset and cursor, is an equality filter on
\* that field by its first value, the filters are AND-combined, and the
\* other parameters are ignored: the answer is 200, the records counted are
\* exactly those passing every field parameter, every returned record is one
\* of them, and with no pagination block all of them are returned.
C28_FieldFilters ==
    ListAnswered =>
        LET keys == FieldParams(srv.schema, "users", srv.req)
            ids == ItemIds(srv.resp.items)
        IN /\ srv.resp.status = 200
           /\ DOMAIN srv.resp.filters = keys
           /\ \A k \in keys : srv.resp.filters[k] = srv.req.query[k][1]
           /\ srv.resp.total = Cardinality(Filtered(srv.req))
           /\ SeqRange(ids) \subseteq Filtered(srv.req)
           /\ \A j \in 1..Len(ids) : srv.resp.items[j] = data["users"][ids[j]]
           /\ srv.schema.Pagination = Nil =>
                 /\ SeqRange(ids) = Filtered(srv.req)
                 /\ Len(ids) = Cardinality(Filtered(srv.req))

\* C28 witness: with the users 1 (Alice) and 2 (Bob), GET /users?name=Alice
\* answers 200 with exactly the record with id 1.
C28_Witness ==
    /\ ListAnswered
    /\ srv.schema.Pagination = Nil
    /\ DOMAIN data["users"] = {S1, S2}
    /\ DOMAIN srv.req.query = {"name"}
    /\ srv.req.query["name"] = <<Alice>>
    /\ srv.resp.status = 200
    /\ ItemIds(srv.resp.items) = <<S1>>

(***************************************************************************)
(* Route generation (internal/schema/routes.go)                            *)
(***************************************************************************)
\* A base path of the schema file has at most MaxPathLen bytes.
MaxPathLen == 4

Space == 32
Slash == 47

\* unicode.IsSpace for the bytes of the base paths.
IsSpace(ch) == ch = Space \/ ch = 9 \/ ch = 10 \/ ch = 13

RECURSIVE TrimLeftSpace(_)
TrimLeftSpace(s) ==
    IF s # << >> /\ IsSpace(Head(s)) THEN TrimLeftSpace(Tail(s)) ELSE s

RECURSIVE TrimRightSpace(_)
TrimRightSpace(s) ==
    IF s # << >> /\ IsSpace(s[Len(s)]) THEN TrimRightSpace(SubSeq(s, 1, Len(s) - 1)) ELSE s

\* strings.TrimSpace
TrimSpace(s) == TrimRightSpace(TrimLeftSpace(s))

\* strings.TrimRight(s, "/")
RECURSIVE TrimRightSlash(_)
TrimRightSlash(s) ==
    IF s # << >> /\ s[Len(s)] = Slash THEN TrimRightSlash(SubSeq(s, 1, Len(s) - 1)) ELSE s

\* NormalizeBasePath
NormalizeBasePath(basePath) ==
    LET trimmed == TrimSpace(basePath)
    IN IF trimmed = << >> THEN << >>
       ELSE TrimRightSlash(IF trimmed[1] # Slash THEN <<Slash>> \o trimmed ELSE trimmed)

\* fmt.Sprintf("%s/%s", prefix, entityName) and fmt.Sprintf("%s/%s/{id}",
\* prefix, entityName): the prefix and the segments after it.
RoutePath(prefix, segs) == [prefix |-> prefix, segs |-> segs]

RouteInfo(prefix, entityName) ==
    [EntityName |-> entityName,
     CollectionPath |-> RoutePath(prefix, <<entityName>>),
     ItemPath |-> RoutePath(prefix, <<entityName, "{id}">>)]

\* The base paths of the schema files: strings of spaces, slashes and the
\* letter a.
RECURSIVE StringsUpTo(_, _)
StringsUpTo(alphabet, n) ==
    IF n = 0 THEN { << >> }
    ELSE LET shorter == StringsUpTo(alphabet, n - 1)
         IN shorter \cup { <<ch>> \o s : ch \in alphabet, s \in { x \in shorter : Len(x) = n - 1 } }

BasePaths == StringsUpTo({ Space, Slash, 97 }, MaxPathLen)

NoRouteMap == [e \in {} |-> RouteInfo(<< >>, e)]

\* The loader holds a schema with a base path and entities.
InitRoutes ==
    /\ InitStore
    /\ op = NoOp
    /\ ret = NoRet
    /\ seen = [t \in EntityTypes |-> 0]
    /\ ngen = 0
    /\ prevq = NoPrev
    /\ pg = NoPg
    /\ mu = NoMu
    /\ thr = << >>
    /\ base = << >>
    /\ \E bp \in BasePaths, es \in { {"users"}, {"users", "tweets"}, {} } :
          srv = [phase |-> "loaded", BasePath |-> bp, Entities |-> es, routeMap |-> NoRouteMap]

\* Loader.BuildRouteMap
BuildRouteMap ==
    /\ srv.phase = "loaded"
    /\ LET prefix == NormalizeBasePath(srv.BasePath)
       IN srv' = [srv EXCEPT !.phase = "routed",
                             !.routeMap = [e \in srv.Entities |-> RouteInfo(prefix, e)]]
    /\ UNCHANGED <<data, counter, StoreVars>>

NextRoutes == BuildRouteMap

SpecRoutes == InitRoutes /\ [][NextRoutes]_vars

\* All bytes of s are slashes.
OnlySlashes(s) == \A i \in 1..Len(s) : s[i] = Slash

\* C31: the prefix of the generated routes is the empty string when the base
\* path is empty after trimming whitespace or consists only of slashes, and
\* otherwise a string that begins with exactly one '/' and does not end with
\* '/'; there is one pair of routes <prefix>/<entity> and
\* <prefix>/<entity>/{id} for each entity of the schema.
C31_NormalizedBasePath ==
    srv.phase = "routed" =>
        LET prefix == NormalizeBasePath(srv.BasePath)
            trimmed == TrimSpace(srv.BasePath)
        IN /\ IF trimmed = << >> \/ OnlySlashes(trimmed)
              THEN prefix = << >>
              ELSE /\ Len(prefix) >= 2
                   /\ prefix[1] = Slash
                   /\ prefix[2] # Slash
                   /\ prefix[Len(prefix)] # Slash
           /\ DOMAIN srv.routeMap = srv.Entities
           /\ \A e \in srv.Entities :
                 /\ srv.routeMap[e].CollectionPath = [prefix |-> prefix, segs |-> <<e>>]
                 /\ srv.routeMap[e].ItemPath = [prefix |-> prefix, segs |-> <<e, "{id}">>]

(***************************************************************************)
(* Properties of query results                                             *)
(***************************************************************************)
\* C32: the Items of every ListQuery result are in strictly ascending
\* order of id as strings (byte by byte, not as numbers), whatever creates,
\* seeds, updates and deletes came before: each item carries a string id
\* and the id of each item is below the id of the next.
C32_ItemsInStringOrder ==
    Queried =>
        /\ \A i \in 1..Len(ret.items) :
              Has(ret.items[i], "id") /\ ret.items[i]["id"].t = "string"
        /\ \A i \in 1..(Len(ret.items) - 1) :
              StrLess(ret.items[i]["id"].s, ret.items[i + 1]["id"].s)

\* C32 witness: with the users "2" (generated) and "10" (seeded later) the
\* result lists "10" before "2".
C32_Witness ==
    /\ Queried
    /\ Len(ret.items) = 2
    /\ ret.items[1]["id"] = StrV(S10)
    /\ ret.items[2]["id"] = StrV(S2)

\* C33: TotalCount of a ListQuery result is the number of records of the
\* collection that match the filter set, whatever limit, offset and cursor
\* are, also when the page is empty because the cursor is unknown or the
\* offset is past the end; it is never below the number of returned Items.
C33_TotalCountIsMatchCount ==
    Queried =>
        /\ ret.total = Cardinality(Matching(data[op.et], op.opts.Filters))
        /\ ret.total >= Len(ret.items)

\* C33 witness: a query whose cursor is the id of no record returns an
\* empty page and counts the two matching records.
C33_Witness ==
    /\ Queried
    /\ op.opts.Cursor = S1
    /\ S1 \notin DOMAIN data[op.et]
    /\ op.opts.Filters # NoFilters
    /\ Cardinality(DOMAIN data[op.et]) = 3
    /\ ret.items = << >>
    /\ ret.total = 2

\* C34: with a non-empty cursor the page is taken from the matching
\* records, in ID order, strictly after the record whose id is the cursor:
\* it is the first Limit of them (all of them without a limit); when no
\* matching record has that id, or it is the last one, Items and NextCursor
\* are empty; an offset given with the cursor changes nothing.
C34_CursorPage ==
    (Queried /\ op.opts.Cursor # EmptyStr) =>
        LET matching == Matching(data[op.et], op.opts.Filters)
            after == { id \in matching : StrLess(op.opts.Cursor, id) }
            ids == ItemIds(ret.items)
        IN IF op.opts.Cursor \in matching /\ after # {}
           THEN /\ SeqRange(ids) \subseteq after
                /\ Ascending(ids)
                /\ Len(ids) = IF op.opts.Limit > 0 /\ Cardinality(after) > op.opts.Limit
                              THEN op.opts.Limit ELSE Cardinality(after)
                /\ \A id \in after \ SeqRange(ids) : \A j \in 1..Len(ids) : StrLess(ids[j], id)
                /\ \A j \in 1..Len(ids) : ret.items[j] = data[op.et][ids[j]]
           ELSE /\ ret.items = << >>
                /\ ret.next = EmptyStr

\* C34 witness: over the users 1, 10 and 2, a query with cursor "1" and
\* offset 1 returns "10" and "2".
C34_Witness ==
    /\ Queried
    /\ op.opts.Cursor = S1
    /\ op.opts.Offset = 1
    /\ op.opts.Limit = 0
    /\ op.opts.Filters = NoFilters
    /\ DOMAIN data[op.et] = {S1, S10, S2}
    /\ ItemIds(ret.items) = <<S10, S2>>

(***************************************************************************)
(* Properties of Seed                                                      *)
(***************************************************************************)
\* The positions of the records of a seed list that carry a string id.
WithStringId(list) ==
    { i \in 1..Len(list) : Has(list[i], "id") /\ list[i]["id"].t = "string" }

\* The last record of the list with the string id.
LastWithId(list, id) ==
    LET at == { i \in WithStringId(list) : list[i]["id"].s = id }
    IN list[CHOOSE i \in at : \A j \in at : j <= i]

MatchValues ==
    { StrV(S1), StrV(<<49, 46, 48>>), StrV(<<116, 114, 117, 101>>), StrV(Alice), StrV(EmptyStr),
      NumV(1, 0), NumV(15, 1), NumV(0, 0), NumV(0 - 1, 0), NumV(10, 0),
      BoolV(TRUE), BoolV(FALSE), NilV, SliceV(<<Sa, Bob>>), SliceV(<< >>) }

MatchEntities ==
    { Rec(<<StrV(S1)>>, Absent) } \cup { MapSet(Rec(<<StrV(S1)>>, Absent), "v", x) : x \in MatchValues }

\* The filter values: numerals in several spellings, spellings of the
\* booleans, other strings.
MatchFilterValues ==
    { S1, <<49, 53>>, <<49, 46, 48>>, S01, <<43, 49>>, <<45, 49>>, <<49, 46, 53>>, <<49, 46, 53, 48>>,
      <<48>>, <<45, 48>>, S10, <<49, 48, 46>>, <<46>>, <<49, 120>>, EmptyStr, Alice,
      <<116, 114, 117, 101>>, <<84, 82, 85, 69>>, <<116>>, <<84, 114, 117, 101>>,
      <<102, 97, 108, 115, 101>>, <<102>>, <<70>>, <<116, 82, 85, 69>>,
      <<60, 110, 105, 108, 62>>, <<91, 97, 32, 66, 111, 98, 93>>, <<91, 93>> }

InitMatch ==
    /\ InitStore
    /\ op = NoOp
    /\ ret = NoRet
    /\ seen = [t \in EntityTypes |-> 0]
    /\ ngen = 0
    /\ prevq = NoPrev
    /\ pg = NoPg
    /\ mu = NoMu
    /\ thr = << >>
    /\ base = << >>
    /\ \E entity \in MatchEntities, f \in MatchFilterValues :
          srv = [phase |-> "input", entity |-> entity,
                 filters |-> [k \in {"v"} |-> f], result |-> FALSE]

\* matchesFilters(entity, filters)
MatchesFilters ==
    /\ srv.phase = "input"
    /\ srv' = [srv EXCEPT !.phase = "matched",
                          !.result = matchesFilters(srv.entity, srv.filters)]
    /\ UNCHANGED <<data, counter, StoreVars>>

NextMatch == MatchesFilters

SpecMatch == InitMatch /\ [][NextMatch]_vars

RECURSIVE Pow10(_)
Pow10(k) == IF k = 0 THEN 1 ELSE 10 * Pow10(k - 1)

\* The decimals n * 10^(-e) and m * 10^(-d) are the same number.
SameNumber(n, e, m, d) == n * Pow10(d) = m * Pow10(e)

\* C36: a filter value f matches a stored value x as follows: a record
\* without the field never matches; a string matches iff it equals f; a
\* number matches iff f parses as a number equal to it; a boolean matches
\* iff f parses as a boolean equal to it; null and arrays match iff their
\* formatted form equals f.
C36_FilterValueMatches ==
    srv.phase = "matched" =>
        LET f == srv.filters["v"]
        IN IF "v" \notin DOMAIN srv.entity THEN ~srv.result
           ELSE LET x == srv.entity["v"]
                IN CASE x.t = "string" -> srv.result <=> (x.s = f)
                     [] x.t = "float64" ->
                          srv.result <=> (ParseFloat(f).ok
                                            /\ SameNumber(x.n, x.e, ParseFloat(f).n, ParseFloat(f).e))
                     [] x.t = "bool" ->
                          srv.result <=> (ParseBool(f).ok /\ ParseBool(f).b = x.b)
                     [] x.t = "nil" -> srv.result <=> (f = <<60, 110, 105, 108, 62>>)
                     [] OTHER -> srv.result <=> (f = <<91>> \o JoinSp(x.l) \o <<93>>)

\* C36 witness: the number 1.5 matches the filter value "1.50".
C36_Witness ==
    /\ srv.phase = "matched"
    /\ "v" \in DOMAIN srv.entity
    /\ srv.entity["v"] = NumV(15, 1)
    /\ srv.filters["v"] = <<49, 46, 53, 48>>
    /\ srv.result

(***************************************************************************)
(* applyTemplate on list templates                                         *)
(***************************************************************************)
\* "after $next_token", "$count of $count" and "total".
AfterNext == <<97, 102, 116, 101, 114, 32>> \o VarNextToken
CountOfCount == VarCount \o <<32, 111, 102, 32>> \o VarCount
Total == <<116, 111, 116, 97, 108>>

\* List templates of a response_wrapper block.
Templates ==
    { ListTemplate,
      StrV(AfterNext),
      StrV(VarResultCount \o <<47>> \o VarCount),
      ObjV([k \in {"next"} |-> StrV(VarNextToken \o VarNextToken)]),
      ArrV(<<StrV(VarCount), NumV(1, 0), StrV(Total), BoolV(TRUE), NilV>>),
      ObjV([k \in {"items", "meta"} |->
              IF k = "items" THEN StrV(VarEntities)
              ELSE ObjV([j \in {"next", "twice", "plain", "pages"} |->
                           CASE j = "next" -> StrV(AfterNext)
                             [] j = "twice" -> StrV(CountOfCount)
                             [] j = "plain" -> StrV(Total)
                             [] OTHER -> ArrV(<<StrV(VarResultCount), StrV(AfterNext)>>)])]) }

\* Results of ListQuery over users whose ids are "$count", "1", "2" and "a":
\* pages of up to MaxLimit records in ID order, cut by the limit or not.
TemplatePool ==
    << Rec(<<StrV(VarCount)>>, <<StrV(Alice)>>), Rec(<<StrV(S1)>>, <<StrV(Bob)>>),
       Rec(<<StrV(S2)>>, <<StrV(Bob)>>), Rec(<<StrV(Sa)>>, <<StrV(Alice)>>) >>

TemplateResults ==
    { [Items |-> items, TotalCount |-> Len(TemplatePool), NextCursor |-> next] :
        items \in { Pick(TemplatePool, chosen) :
                      chosen \in { c \in SUBSET (1..Len(TemplatePool)) : Cardinality(c) <= MaxLimit } },
        next \in { EmptyStr, VarCount, S1, S2, Sa } }

ProducibleResults ==
    { r \in TemplateResults :
        r.NextCursor = EmptyStr \/ (r.Items # << >> /\ r.NextCursor = LastID(r.Items)) }

InitTemplate ==
    /\ InitStore
    /\ op = NoOp
    /\ ret = NoRet
    /\ seen = [t \in EntityTypes |-> 0]
    /\ ngen = 0
    /\ prevq = NoPrev
    /\ pg = NoPg
    /\ mu = NoMu
    /\ thr = << >>
    /\ base = << >>
    /\ \E template \in Templates :
          srv = [phase |-> "loaded", template |-> template,
                 result |-> [Items |-> << >>, TotalCount |-> 0, NextCursor |-> EmptyStr],
                 out |-> NilV]

\* respondList applies the list template of the schema to one more result.
ApplyTemplate(result) ==
    /\ \E out \in Templated(srv.template, ListMetadata(result)) :
          srv' = [srv EXCEPT !.phase = "applied", !.result = result, !.out = out]
    /\ UNCHANGED <<data, counter, StoreVars>>

NextTemplate == \E result \in ProducibleResults : ApplyTemplate(result)

SpecTemplate == InitTemplate /\ [][NextTemplate]_vars

\* s with each occurrence of a variable name, found from left to right in s
\* itself, replaced by the display string of the variable.
RECURSIVE Substituted(_, _)
Substituted(s, bindings) ==
    IF s = << >> THEN << >>
    ELSE IF \E k \in DOMAIN bindings : HasPrefix(s, k)
    THEN LET k == CHOOSE key \in DOMAIN bindings : HasPrefix(s, key)
         IN SprintfAny(bindings[k]) \o Substituted(SubSeq(s, Len(k) + 1, Len(s)), bindings)
    ELSE <<Head(s)>> \o Substituted(Tail(s), bindings)

\* Each occurrence of a bound variable replaced by its display string.
RECURSIVE Expected(_, _)
Expected(template, bindings) ==
    CASE template.t = "string" ->
            IF template.s \in DOMAIN bindings THEN bindings[template.s]
            ELSE StrV(Substituted(template.s, bindings))
      [] template.t = "map" ->
            [t |-> "map", m |-> [k \in DOMAIN template.m |-> Expected(template.m[k], bindings)]]
      [] template.t = "array" ->
            [t |-> "array", l |-> [i \in 1..Len(template.l) |-> Expected(template.l[i], bindings)]]
      [] OTHER -> template

\* C37: applyTemplate rebuilds objects and arrays member by member with the
\* same keys and length; in a string leaf that contains variable names
\* inside a longer string each occurrence is replaced by the display string
\* of the variable; a string without a variable name and every number,
\* boolean and null is returned as it is; the result of each application is
\* given by the template and the bindings of that response alone.
C37_TemplateSubstitution ==
    srv.phase = "applied" =>
        srv.out = Expected(srv.template, ListMetadata(srv.result))

\* C38: with pagination configured, the limit given to the store for a
\* collection GET is at least 1: the limit parameter if it is a positive
\* integer, else defaultLimit (20 when that is 0), in both cases capped at
\* maxLimit when maxLimit > 0; in cursor style the offset parameter and in
\* offset style the cursor parameter are not given to the store.
C38_EffectiveLimit ==
    (ListAnswered /\ srv.schema.Pagination # Nil) =>
        LET pag == srv.schema.Pagination[1]
            q == srv.req.query
            positive == /\ "limit" \in DOMAIN q
                        /\ AllDigits(q["limit"][1])
                        /\ DecValue(q["limit"][1]) > 0
            asked == IF positive THEN DecValue(q["limit"][1])
                     ELSE IF pag.DefaultLimit = 0 THEN 20 ELSE pag.DefaultLimit
            opts == srv.resp.opts
        IN /\ opts.Limit >= 1
           /\ opts.Limit = IF pag.MaxLimit > 0 /\ asked > pag.MaxLimit
                           THEN pag.MaxLimit ELSE asked
           /\ pag.Style = "cursor" =>
                 /\ opts.Offset = 0
                 /\ opts.Cursor = IF "cursor" \in DOMAIN q THEN q["cursor"][1] ELSE EmptyStr
           /\ pag.Style # "cursor" => opts.Cursor = EmptyStr

\* C38 witness: in cursor style with defaultLimit 2, GET
\* /users?limit=0&offset=1 queries the store with limit 2 and no offset and
\* returns the first two of three users.
C38_Witness ==
    /\ ListAnswered
    /\ srv.schema.Pagination # Nil
    /\ srv.schema.Pagination[1] = PaginationConfig("cursor", 2, 0)
    /\ DOMAIN srv.req.query = {"limit", "offset"}
    /\ srv.req.query["limit"] = <<(<<48>>)>>
    /\ srv.req.query["offset"] = <<S1>>
    /\ srv.resp.opts.Limit = 2
    /\ srv.resp.opts.Offset = 0
    /\ srv.resp.total = 3
    /\ Len(srv.resp.items) = 2

(***************************************************************************)
(* Requests served at the same time                                        *)
(***************************************************************************)
\* net/http runs each request in a goroutine of its own. A handler that
\* writes calls the store twice, each call under the store's lock: the
\* write, then the Get of the record it returns. thr[p] is the request of
\* goroutine p, its position (start, written, done), the id and the record
\* of its write, and its response.
Carol == <<67, 97, 114, 111, 108>>

RaceRequests ==
    { JsonRequest("PUT", <<"users", "1">>, Rec(Absent, <<StrV(Bob)>>)),
      JsonRequest("PATCH", <<"users", "1">>, Rec(Absent, <<StrV(Carol)>>)),
      JsonRequest("POST", <<"users">>, Rec(<<StrV(S1)>>, <<StrV(Alice)>>)),
      JsonRequest("POST", <<"users">>, Rec(Absent, <<StrV(Bob)>>)),
      JsonRequest("POST", <<"users">>, Rec(Absent, Absent)),
      Request("DELETE", <<"users", "1">>),
      Request("GET", <<"users", "1">>) }

Goroutine(req) ==
    [req |-> req, pc |-> "start", id |-> EmptyStr, written |-> << >>,
     status |-> 0, entity |-> << >>]

InitRace ==
    /\ \E seed \in { << >>, <<Rec(<<StrV(S1)>>, <<StrV(Alice)>>)>> } :
          LET st == seedLoop(seed, 1, [coll |-> EmptyMap, ctr |-> 0, hw |-> 0])
          IN /\ data = [t \in {"users"} |-> st.coll]
             /\ counter = [t \in {"users"} |-> st.ctr]
    /\ op = NoOp
    /\ ret = NoRet
    /\ seen = [t \in EntityTypes |-> 0]
    /\ ngen = 0
    /\ prevq = NoPrev
    /\ pg = NoPg
    /\ mu = NoMu
    /\ base = << >>
    /\ \E r1 \in RaceRequests, r2 \in RaceRequests :
          thr = <<Goroutine(r1), Goroutine(r2)>>
    /\ srv = [phase |-> "serving", schema |-> PlainSchema({"users"}, << >>), seed |-> << >>,
              mux |-> {}, req |-> NoReq, resp |-> NoResp]

RaceVars == <<op, ret, seen, ngen, prevq, pg, mu, base, srv>>

\* The goroutine ends with a response.
Responds(p, status, entity) ==
    thr' = [thr EXCEPT ![p].pc = "done", ![p].status = status, ![p].entity = entity]

\* The store call has stored the record under id; the handler goes on to
\* its Get.
Wrote(p, id, stored) ==
    /\ data' = [data EXCEPT !["users"] = MapSet(@, id, stored)]
    /\ thr' = [thr EXCEPT ![p].pc = "written", ![p].id = id, ![p].written = <<stored>>]

\* handleCreate up to the return of store.Create.
CreateCall(p) ==
    LET req == thr[p].req
        body == req.body.data
    IN /\ thr[p].pc = "start"
       /\ req.method = "POST"
       /\ IF ~ValidBody("users", req, TRUE)
          THEN Responds(p, 400, << >>) /\ UNCHANGED <<data, counter>>
          ELSE IF Has(body, "id") /\ body["id"].t # "nil"
          THEN IF body["id"].t # "string"
               THEN Responds(p, 0, << >>) /\ UNCHANGED <<data, counter>>
               ELSE Wrote(p, body["id"].s, copyMap(body)) /\ UNCHANGED counter
          ELSE LET c == counter["users"] + 1
               IN /\ counter' = [counter EXCEPT !["users"] = c]
                  /\ Wrote(p, formatID(c), copyMap(MapSet(body, "id", StrV(formatID(c)))))
       /\ UNCHANGED RaceVars

\* handleUpdate and handlePatch up to the return of store.Update or
\* store.Patch.
WriteCall(p) ==
    LET req == thr[p].req
        id == Bytes(req.segs[2])
        put == req.method = "PUT"
    IN /\ thr[p].pc = "start"
       /\ req.method \in {"PUT", "PATCH"}
       /\ IF ~ValidBody("users", req, put)
          THEN Responds(p, 400, << >>) /\ UNCHANGED data
          ELSE IF id \notin DOMAIN data["users"]
          THEN Responds(p, 404, << >>) /\ UNCHANGED data
          ELSE Wrote(p, id, IF put THEN UpdateStored(id, req.body.data)
                            ELSE PatchMerge(data["users"][id], req.body.data))
       /\ UNCHANGED <<counter, RaceVars>>

\* The Get after the write, and the response of the handler.
GetWritten(p) ==
    /\ thr[p].pc = "written"
    /\ IF thr[p].id \in DOMAIN data["users"]
       THEN Responds(p, IF thr[p].req.method = "POST" THEN 201 ELSE 200,
                     <<copyMap(data["users"][thr[p].id])>>)
       ELSE Responds(p, 500, << >>)
    /\ UNCHANGED <<data, counter, RaceVars>>

\* handleDelete
DeleteCall(p) ==
    LET id == Bytes(thr[p].req.segs[2])
    IN /\ thr[p].pc = "start"
       /\ thr[p].req.method = "DELETE"
       /\ IF id \in DOMAIN data["users"]
          THEN /\ data' = [data EXCEPT !["users"] = MapDel(@, id)]
               /\ Responds(p, 204, << >>)
          ELSE Responds(p, 404, << >>) /\ UNCHANGED data
       /\ UNCHANGED <<counter, RaceVars>>

\* handleGetOne
GetCall(p) ==
    LET id == Bytes(thr[p].req.segs[2])
    IN /\ thr[p].pc = "start"
       /\ thr[p].req.method = "GET"
       /\ IF id \in DOMAIN data["users"]
          THEN Responds(p, 200, <<copyMap(data["users"][id])>>)
          ELSE Responds(p, 404, << >>)
       /\ UNCHANGED <<data, counter, RaceVars>>

NextRace ==
    \E p \in 1..2 :
        \/ CreateCall(p)
        \/ WriteCall(p)
        \/ GetWritten(p)
        \/ DeleteCall(p)
        \/ GetCall(p)

SpecRace == InitRace /\ [][NextRace]_vars

\* The states of SpecRace.
Racing == srv.phase = "serving" /\ Len(thr) = 2 /\ "pc" \in DOMAIN thr[1]

\* C39: a POST, PUT or PATCH whose store write succeeded answers 201 (POST)
\* or 200 (PUT, PATCH) with the record its own write produced, under every
\* interleaving with another request: never the later write of another
\* request to that id, never a 500 because the record was deleted meanwhile.
C39_AnswersOwnWrite ==
    Racing =>
        \A p \in 1..2 :
            (thr[p].pc = "done" /\ thr[p].written # << >>) =>
                /\ thr[p].status = IF thr[p].req.method = "POST" THEN 201 ELSE 200
                /\ thr[p].entity = thr[p].written

(***************************************************************************)
(* Requests answered 400                                                   *)
(***************************************************************************)
\* The request just served is a write answered 400.
Rejected ==
    /\ Served
    /\ srv'.req.method \in { "POST", "PUT", "PATCH" }
    /\ srv'.resp.status = 400

\* C40: a POST, PUT or PATCH answered 400 (a body that is not JSON, a
\* required field missing on POST or PUT, a field of the wrong type) leaves
\* every collection and every ID counter as it was: a rejected POST takes no
\* generated id.
C40_RejectedLeavesStore ==
    [][Rejected => (data' = data /\ counter' = counter /\ ngen' = ngen)]_vars

\* A POST without its required field has been answered 400 by the handler
\* over a seeded collection, and no id has been generated.
C40_Witness ==
    /\ Handled
    /\ srv.req.method = "POST"
    /\ srv.req.segs = <<"users">>
    /\ srv.req.body = JsonBody(EmptyMap)
    /\ srv.resp.status = 400
    /\ data["users"] # EmptyMap
    /\ ngen = 0
====
